---- MODULE Spec2Model ----
(***************************************************************************)
(* A model of data_cutter's schema model maker                             *)
(* (src/src/data_cutter/model_maker/maker.py): SchemaModelMaker.make turns *)
(* a SchemaConfig into a pydantic model, resolving custom dtypes on demand *)
(* through _get_dtype and _build_model.  The recursion of the two methods  *)
(* is unrolled into an explicit stack of _build_model frames, one action   *)
(* per piece of code between two calls.                                    *)
(***************************************************************************)
EXTENDS Integers, Sequences, FiniteSets, TLC

VARIABLES
    custom_models,        \* self._custom_models: dtype name -> model object
    building,             \* self._building: set of dtype names
    custom_dtype_specs,   \* self._custom_dtype_specs: name -> CustomDTypeSpec
    config,               \* the SchemaConfig of the running call
    stack,                \* the _build_model frames of the running call
    heap,                 \* the model objects created by create_model
    pc,                   \* "idle" | "running" | "done"
    result,               \* what the call returned or raised
    entered,              \* history: the in-progress set as the call found it
    parked,               \* the make call of the thread that is not running
    call,                 \* the formatter call under way: its name and arguments
    ret,                  \* what the formatter call returned or raised
    converters,           \* MessageConverterFactory._converters: name -> class
    registered,           \* history: the register calls made, in order
    formatter,            \* a PromptTemplateFormatter: message_format, _converter
    created               \* the number of converter objects created

vars == <<custom_models, building, custom_dtype_specs, config, stack, heap,
          pc, result, entered, parked, call, ret, converters, registered, formatter,
          created>>
ConverterVars == <<converters, registered, formatter, created>>

(***************************************************************************)
(* Bounds of the model.                                                    *)
(***************************************************************************)
\* number of custom dtype names a schema may define
MaxCustom == 3
\* how far the dims tried reach beyond the supported 0..2
DimSlack == 1
\* longest allowed_values list
MaxAllowed == 2
\* longest list a scope of the template formatter holds
MaxList == 2
\* most pieces (words and separators) of an image URL
MaxUrl == 9
\* most register calls on the converter registry
MaxRegister == 2
\* most converter objects created
MaxInstances == 3

(***************************************************************************)
(* Python values: a value carries its type tag.  A float is kept by its    *)
(* integral value (1.0 is [t |-> "float", v |-> 1]).                       *)
(***************************************************************************)
PyInt(n) == [t |-> "int", v |-> n]
PyFloat(n) == [t |-> "float", v |-> n]
PyStr(s) == [t |-> "str", v |-> s]
PyBool(b) == [t |-> "bool", v |-> b]
PyList(s) == [t |-> "list", v |-> s]
PyDict(f) == [t |-> "dict", v |-> f]
PyNone == [t |-> "None", v |-> 0]

EmptyDict == [k \in {} |-> 0]

\* d[k] = v of a Python dict: a later assignment replaces an earlier one
DictSet(d, k, v) == [x \in (DOMAIN d) \cup {k} |-> IF x = k THEN v ELSE d[x]]

(***************************************************************************)
(* str.lower() over the dtype names and format names of the model.         *)
(***************************************************************************)
Lower(s) ==
    CASE s = "String" -> "string"
      [] s = "INT" -> "int"
      [] s = "Integer" -> "integer"
      [] s = "Number" -> "number"
      [] s = "Bool" -> "bool"
      [] s = "BBOX" -> "bbox"
      [] s = "Bbox" -> "bbox"
      [] s = "A" -> "a"
      [] s = "B" -> "b"
      [] s = "C" -> "c"
      [] s = "D" -> "d"
      [] s = "E" -> "e"
      [] s = "X" -> "x"
      [] s = "OpenAI" -> "openai"
      [] s = "Anthropic" -> "anthropic"
      [] s = "Custom" -> "custom"
      [] OTHER -> s

(***************************************************************************)
(* The types a field of a built model can have.                            *)
(***************************************************************************)
TPrim(p) == [k |-> "prim", p |-> p]
TBbox == [k |-> "bbox"]
TModel(id) == [k |-> "model", id |-> id]
TEnum(name, base, members) ==
    [k |-> "enum", name |-> name, base |-> base, members |-> members]
TList(e) == [k |-> "list", of |-> e]
NoType == [k |-> "none"]

\* _get_primitive_dtype falling back to str where line 46 returns None
GetPrimitiveDtypeOrStr(dtype_name) ==
    LET lower == Lower(dtype_name) IN
    IF lower \in {"integer", "int"} THEN "int"
    ELSE IF lower \in {"number", "float"} THEN "float"
    ELSE IF lower \in {"boolean", "bool"} THEN "bool"
    ELSE "str"

\* _get_primitive_dtype: the Python type of a primitive name, else None
GetPrimitiveDtype(dtype_name) ==
    LET lower == Lower(dtype_name) IN
    IF lower \in {"string", "str"} THEN "str"
    ELSE IF lower \in {"integer", "int"} THEN "int"
    ELSE IF lower \in {"number", "float"} THEN "float"
    ELSE IF lower \in {"boolean", "bool"} THEN "bool"
    ELSE "None"

IsBbox(dtype_name) == Lower(dtype_name) = "bbox"

(***************************************************************************)
(* The Python builtins str(), int(), float() and bool() over the values    *)
(* of the model.  A call that raises gives ok = FALSE and the exception.   *)
(***************************************************************************)
StrOfInt(n) ==
    CASE n = 0 -> "0" [] n = 1 -> "1" [] n = 2 -> "2" [] n = 3 -> "3"
      [] OTHER -> "n"

\* the strings int() and float() parse
NumericStrings == {"0", "1", "2", "3"}

ParseInt(s) == CASE s = "0" -> 0 [] s = "1" -> 1 [] s = "2" -> 2 [] s = "3" -> 3

Returned(v) == [ok |-> TRUE, v |-> v]
Raised(exc, msg) == [ok |-> FALSE, exc |-> exc, msg |-> msg]

\* repr() of a str: the text between quotes
Repr(s) == <<"'", s, "'">>

PyStrOf(v) ==
    CASE v.t = "str" -> v.v
      [] v.t = "int" -> StrOfInt(v.v)
      [] v.t = "float" -> StrOfInt(v.v) \o ".0"
      [] v.t = "bool" -> IF v.v THEN "True" ELSE "False"
      [] OTHER -> "None"

CallStr(v) == Returned(PyStr(PyStrOf(v)))

CallInt(v) ==
    CASE v.t = "int" -> Returned(v)
      [] v.t = "float" -> Returned(PyInt(v.v))
      [] v.t = "bool" -> Returned(PyInt(IF v.v THEN 1 ELSE 0))
      [] v.t = "str" ->
           IF v.v \in NumericStrings THEN Returned(PyInt(ParseInt(v.v)))
           ELSE Raised("ValueError",
                       <<"invalid literal for int() with base 10: ">> \o Repr(v.v))
      [] OTHER -> Raised("TypeError", <<"int() argument must be a string or a number">>)

CallFloat(v) ==
    CASE v.t = "int" -> Returned(PyFloat(v.v))
      [] v.t = "float" -> Returned(v)
      [] v.t = "bool" -> Returned(PyFloat(IF v.v THEN 1 ELSE 0))
      [] v.t = "str" ->
           IF v.v \in NumericStrings THEN Returned(PyFloat(ParseInt(v.v)))
           ELSE Raised("ValueError",
                       <<"could not convert string to float: ">> \o Repr(v.v))
      [] OTHER -> Raised("TypeError", <<"float() argument must be a string or a number">>)

CallBool(v) ==
    CASE v.t = "int" -> Returned(PyBool(v.v # 0))
      [] v.t = "float" -> Returned(PyBool(v.v # 0))
      [] v.t = "bool" -> Returned(v)
      [] v.t = "str" -> Returned(PyBool(v.v # ""))
      [] v.t = "list" -> Returned(PyBool(Len(v.v) > 0))
      [] OTHER -> Returned(PyBool(FALSE))

\* dtype(v) of line 103: dtype is a Python type or a pydantic model class,
\* and a model class takes no positional argument
CallDtype(dtype, v) ==
    CASE dtype.k = "prim" /\ dtype.p = "str" -> CallStr(v)
      [] dtype.k = "prim" /\ dtype.p = "int" -> CallInt(v)
      [] dtype.k = "prim" /\ dtype.p = "float" -> CallFloat(v)
      [] dtype.k = "prim" /\ dtype.p = "bool" -> CallBool(v)
      [] OTHER -> Raised("TypeError",
                         <<"BaseModel.__init__() takes 1 positional argument but 2 were given">>)

\* the truth value of a Python value, as `if value:` tests it
Truthy(v) ==
    CASE v.t = "list" -> Len(v.v) > 0
      [] v.t = "None" -> FALSE
      [] v.t = "str" -> v.v # ""
      [] v.t \in {"int", "float"} -> v.v # 0
      [] v.t = "bool" -> v.v
      [] v.t = "dict" -> v.v # <<>>
      [] OTHER -> TRUE

\* {str(v): v for v in values}: a later value replaces an earlier one under
\* the same key
RECURSIVE EnumDict(_)
EnumDict(values) ==
    IF Len(values) = 0 THEN EmptyDict
    ELSE LET last == values[Len(values)]
         IN  DictSet(EnumDict(SubSeq(values, 1, Len(values) - 1)),
                     PyStrOf(last), last)

\* create_dynamic_enum: Enum(name, {str(v): v for v in values}); the
\* members of the enumeration are the values of the dict
CreateDynamicEnum(name, base, values) ==
    LET d == EnumDict(values)
    IN  TEnum(name, base, {d[key] : key \in DOMAIN d})

\* line 103 without the call of dtype: the declared values as they are
CoerceNone(dtype, values) == Returned(values)

\* [dtype(v) for v in allowed_values]: the first call that raises ends it
RECURSIVE CoerceAll(_, _)
CoerceAll(dtype, values) ==
    IF Len(values) = 0 THEN Returned(<<>>)
    ELSE LET head == CallDtype(dtype, values[1])
         IN  IF ~head.ok THEN head
             ELSE LET rest == CoerceAll(dtype, Tail(values))
                  IN  IF ~rest.ok THEN rest
                      ELSE Returned(<<head.v>> \o rest.v)

DimError == Raised("ValueError", <<"dim > 2 not supported for now">>)

\* lines 107-116 with the test of line 113 left out
ExpandDimsUnchecked(dtype, dim) ==
    IF dim = 0 THEN Returned(dtype)
    ELSE IF dim = 1 THEN Returned(TList(dtype))
    ELSE Returned(TList(TList(dtype)))

\* lines 107-116: expand dims
ExpandDims(dtype, dim) ==
    IF dim = 0 THEN Returned(dtype)
    ELSE IF dim = 1 THEN Returned(TList(dtype))
    ELSE IF dim = 2 THEN Returned(TList(TList(dtype)))
    ELSE DimError

\* line 102: the test that decides whether the field gets an enumeration
HasAllowedValues(field_spec) == Truthy(field_spec.allowed_values)

\* line 119
DefaultOf(field_spec) == IF field_spec.optional THEN "None" ELSE "Ellipsis"

\* lines 101-121 of _build_model: from the resolved base dtype of a field
\* to its entry (dtype, default) of model_spec_dict
ApplyField(model_name, field, dtype) ==
    LET field_spec == field.specification
        coerced == IF HasAllowedValues(field_spec)
                   THEN CoerceAll(dtype, field_spec.allowed_values.v)
                   ELSE Returned(<<>>)
        enum == IF HasAllowedValues(field_spec) /\ coerced.ok
                THEN CreateDynamicEnum(model_name \o "_" \o field.name \o "_enum",
                                       dtype, coerced.v)
                ELSE dtype
        expanded == ExpandDims(enum, field_spec.dim)
    IN  IF ~coerced.ok THEN coerced
        ELSE IF ~expanded.ok THEN expanded
        ELSE Returned([name |-> field.name, type |-> expanded.v,
                       default |-> DefaultOf(field_spec)])

(***************************************************************************)
(* The schemas the calls are given.  A FieldSpec is                        *)
(* [name, specification |-> [dim, dtype, allowed_values, optional]], a     *)
(* CustomDTypeSpec [name, fields], a SchemaConfig [name, fields,           *)
(* custom_dtypes]: src/src/data_cutter/types/schema.py.                    *)
(***************************************************************************)
DtypeSpec(dtype, dim, allowed_values, optional) ==
    [dim |-> dim, dtype |-> dtype, allowed_values |-> allowed_values,
     optional |-> optional]

FieldSpec(name, specification) == [name |-> name, specification |-> specification]

\* a required scalar field without allowed_values (the defaults of DtypeSpec)
Plain(name, dtype) == FieldSpec(name, DtypeSpec(dtype, 0, PyNone, FALSE))

CustomDTypeSpec(name, fields) == [name |-> name, fields |-> fields]

SchemaConfig(name, fields, custom_dtypes) ==
    [name |-> name, fields |-> fields, custom_dtypes |-> custom_dtypes]

AllCustomNames == <<"A", "B", "C", "D", "E">>
CustomNames == {AllCustomNames[i] : i \in 1..MaxCustom}

\* what a field of a custom type may name: a primitive, a custom type, or
\* a name nothing defines
CustomRefs == {"int", "X"} \cup CustomNames
\* what a root field of the reference schemas may name
RootRefs == {"X"} \cup CustomNames

Present(custom) == Len(custom.fields) > 0

\* the custom_dtypes list in which custom type i has the one field r[i],
\* and is absent when r[i] = "-"
CustomDtypesOf(r) ==
    SelectSeq([i \in 1..MaxCustom |->
                  CustomDTypeSpec(AllCustomNames[i],
                                  IF r[i] = "-" THEN <<>> ELSE <<Plain("f1", r[i])>>)],
              Present)

RootFieldLists ==
    {<<Plain("f1", a)>> : a \in RootRefs}
    \cup {<<Plain("f1", a), Plain("f2", b)>> : a \in RootRefs, b \in RootRefs}

Registries == [1..MaxCustom -> CustomRefs \cup {"-"}]

\* a schema of plain fields over custom types that refer to each other
GraphConfig(fields, r) == SchemaConfig("Root", fields, CustomDtypesOf(r))

\* a schema that defines the custom type A twice
DupConfig(a, b) ==
    SchemaConfig("Root", <<Plain("f1", "A")>>,
                 <<CustomDTypeSpec("A", <<Plain("f1", a)>>),
                   CustomDTypeSpec("A", <<Plain("f1", b)>>)>>)

\* a schema whose custom type A has two fields
WideConfig(a, b, c) ==
    SchemaConfig("Root", <<Plain("f1", "A")>>,
                 <<CustomDTypeSpec("A", <<Plain("f1", a), Plain("f2", b)>>),
                   CustomDTypeSpec("B", <<Plain("f1", c)>>)>>)

Dims == (0 - DimSlack)..(2 + DimSlack)

AllowedAtoms == {PyStr("a"), PyStr("1"), PyInt(1), PyInt(2)}

AllowedChoices ==
    {PyNone} \cup {PyList(s) : s \in UNION {[1..n -> AllowedAtoms] : n \in 0..MaxAllowed}}

ShapeDtypes ==
    {"string", "String", "int", "INT", "number", "bool", "bbox", "BBOX", "A", "a"}

\* a schema with one field of any dtype, dim and allowed_values in the root
ShapeConfig(field) ==
    SchemaConfig("Root", <<field>>,
                 <<CustomDTypeSpec("A", <<Plain("f1", "int")>>)>>)

\* the same field in the custom type the root refers to
NestedShapeConfig(field) ==
    SchemaConfig("Root", <<Plain("f1", "A")>>,
                 <<CustomDTypeSpec("A", <<field>>),
                   CustomDTypeSpec("B", <<Plain("f1", "int")>>)>>)

NoConfig == SchemaConfig("", <<>>, <<>>)

(***************************************************************************)
(* The state of a call.                                                    *)
(***************************************************************************)
NoResult == [kind |-> "none"]
ModelResult(id) == [kind |-> "model", id |-> id]
RaiseResult(e) == [kind |-> "raise", exc |-> e.exc, msg |-> e.msg]

\* a _build_model call: its specification, the index of the field of the
\* loop at line 94, the dtype _get_dtype returned for that field, and
\* model_spec_dict
Frame(specification) ==
    [specification |-> specification, i |-> 1, dtype |-> NoType, out |-> <<>>]

Top == stack[Len(stack)]
CurrentField == Top.specification.fields[Top.i]
InLoop == pc = "running" /\ Top.i <= Len(Top.specification.fields)

\* model_spec_dict[field_name] = (dtype, default)
RECURSIVE SpecDictSet(_, _)
SpecDictSet(out, entry) ==
    IF Len(out) = 0 THEN <<entry>>
    ELSE IF out[1].name = entry.name THEN <<entry>> \o Tail(out)
    ELSE <<out[1]>> \o SpecDictSet(Tail(out), entry)

\* line 123 without __config__: pydantic's default ignores undeclared keys
CreateModelOpen(model_name, out) ==
    [name |-> model_name, extra |-> "ignore", fields |-> out]

\* line 123: create_model(model_name, __config__={"extra": "forbid"}, ...)
CreateModel(model_name, out) ==
    [name |-> model_name, extra |-> "forbid", fields |-> out]

\* schema_maker/dtypes.py: the Bbox model
Bbox ==
    [name |-> "Bbox", extra |-> "forbid",
     fields |-> [i \in 1..4 |->
                    [name |-> <<"x1", "y1", "x2", "y2">>[i], type |-> TPrim("int"),
                     default |-> "Ellipsis"]]]

(***************************************************************************)
(* SchemaModelMaker.__init__ and make                                      *)
(***************************************************************************)
\* the in-progress set of the maker a call starts on
Fields == building
\* a thread that is in no make call
NoCall == [config |-> NoConfig, stack |-> <<>>, pc |-> "idle", result |-> NoResult]
\* no formatter call under way
NoFormat == [op |-> "none"]

\* message_converter.py lines 134-137: the class attribute _converters, a
\* dict in the order of its entries
DefaultConverters ==
    [t |-> "dict", v |-> <<[k |-> "openai", v |-> "OpenAIMessageConverter"],
                           [k |-> "anthropic", v |-> "AnthropicMessageConverter"]>>]
\* self._converter = None: no converter object
NoConverter == [class |-> "None", id |-> 0]
\* no PromptTemplateFormatter yet
NoFormatter == [message_format |-> "", converter |-> NoConverter, constructed |-> FALSE]
NotEntered == {}

\* lines 22-26
Init ==
    /\ custom_models = EmptyDict
    /\ building = {}
    /\ custom_dtype_specs = EmptyDict
    /\ config = NoConfig
    /\ stack = <<>>
    /\ heap = <<>>
    /\ pc = "idle"
    /\ result = NoResult
    /\ entered = NotEntered
    /\ parked = NoCall
    /\ call = NoFormat
    /\ ret = NoResult
    /\ converters = DefaultConverters
    /\ registered = <<>>
    /\ formatter = NoFormatter
    /\ created = 0

\* lines 136-138: reset caches
ResetCustomModels == EmptyDict
\* line 137 left out
KeepBuilding == building
ResetBuilding == {}
ResetCustomDtypeSpecs == EmptyDict

\* lines 141-142: register custom dtype specs
RECURSIVE Register(_, _)
Register(specs, custom_dtypes) ==
    IF Len(custom_dtypes) = 0 THEN specs
    ELSE Register(DictSet(specs, custom_dtypes[1].name, custom_dtypes[1]),
                  Tail(custom_dtypes))

\* lines 136-145, up to the first field of _build_model(config)
MakeBody(cfg) ==
    /\ custom_models' = ResetCustomModels
    /\ building' = ResetBuilding
    /\ custom_dtype_specs' = Register(ResetCustomDtypeSpecs, cfg.custom_dtypes)
    /\ config' = cfg
    /\ stack' = <<Frame([name |-> cfg.name, fields |-> cfg.fields])>>
    \* model objects nothing refers to any more are gone
    /\ heap' = IF DOMAIN custom_models' = {} /\ parked.pc = "idle" THEN <<>> ELSE heap
    /\ pc' = "running"
    /\ result' = NoResult
    /\ entered' = Fields
    /\ UNCHANGED <<parked, call, ret, ConverterVars>>

\* SchemaLoader._make_model, lines 16-17: a new maker, and make on it
MakeModel ==
    /\ pc = "idle"
    /\ custom_models = EmptyDict /\ building = {} /\ custom_dtype_specs = EmptyDict
    /\ \/ \E fields \in RootFieldLists, r \in Registries :
              MakeBody(GraphConfig(fields, r))
       \/ \E a \in CustomRefs, b \in CustomRefs : MakeBody(DupConfig(a, b))
       \/ \E a \in CustomRefs, b \in CustomRefs, c \in CustomRefs :
              MakeBody(WideConfig(a, b, c))
       \/ \E dtype \in ShapeDtypes, dim \in Dims, allowed \in AllowedChoices,
                optional \in BOOLEAN :
              LET field == FieldSpec("f1", DtypeSpec(dtype, dim, allowed, optional))
              IN  \/ MakeBody(ShapeConfig(field))
                  \/ dtype # "A" /\ MakeBody(NestedShapeConfig(field))

\* make on the maker as the calls before left it, with schemas that define
\* the first two custom types at most
Make ==
    /\ pc = "idle"
    /\ \E a \in RootRefs, dim \in {0, 2 + DimSlack}, r \in Registries :
          /\ \A i \in 3..MaxCustom : r[i] = "-"
          /\ dim = 0 \/ a = "A"
          /\ MakeBody(GraphConfig(<<FieldSpec("f1", DtypeSpec(a, dim, PyNone, FALSE))>>, r))

(***************************************************************************)
(* _get_dtype, lines 48-76                                                 *)
(***************************************************************************)
\* lines 59-60 left out: the cache is never consulted
NeverBuilt(dtype_name) == FALSE

\* line 59
IsBuilt(dtype_name) == dtype_name \in DOMAIN custom_models
\* lines 63-64 left out: no name is ever found in progress
NeverBuilding(dtype_name) == FALSE
\* line 63
IsBuilding(dtype_name) == dtype_name \in building
\* line 67
IsRegistered(dtype_name) == dtype_name \in DOMAIN custom_dtype_specs

\* which return or raise of _get_dtype a dtype name reaches
Lookup(dtype_name) ==
    IF GetPrimitiveDtype(dtype_name) # "None" THEN "primitive"
    ELSE IF IsBbox(dtype_name) THEN "bbox"
    ELSE IF IsBuilt(dtype_name) THEN "built"
    ELSE IF IsBuilding(dtype_name) THEN "recursive"
    ELSE IF ~IsRegistered(dtype_name) THEN "unknown"
    ELSE "build"

\* line 64 naming the type being built instead of the dtype looked up
RecursiveErrorOfReferrer(dtype_name) ==
    Raised("ValueError",
           <<"Recursive dtype definition is not allowed: ", Top.specification.name>>)

\* line 64
RecursiveError(dtype_name) ==
    Raised("ValueError", <<"Recursive dtype definition is not allowed: ", dtype_name>>)

\* line 68 without the dtype name in the message
UnknownErrorUnnamed(dtype_name) ==
    Raised("ValueError", <<"dtype ", " not supported">>)

\* line 68
UnknownError(dtype_name) ==
    Raised("ValueError", <<"dtype ">> \o Repr(dtype_name) \o <<" not supported">>)

\* an exception leaves make: no frame of the call catches it
Raise(e) ==
    /\ pc' = "done"
    /\ result' = RaiseResult(e)
    /\ UNCHANGED <<custom_models, building, custom_dtype_specs, config, stack, heap, entered,
                   parked, call, ret, ConverterVars>>

\* lines 50-60: a primitive, bbox or an already built custom model
GetDtypeReturn ==
    /\ InLoop /\ Top.dtype = NoType
    /\ LET dtype_name == CurrentField.specification.dtype
           how == Lookup(dtype_name)
       IN  /\ how \in {"primitive", "bbox", "built"}
           /\ stack' = [stack EXCEPT ![Len(stack)].dtype =
                          CASE how = "primitive" -> TPrim(GetPrimitiveDtype(dtype_name))
                            [] how = "bbox" -> TBbox
                            [] how = "built" -> TModel(custom_models[dtype_name])]
    /\ UNCHANGED <<custom_models, building, custom_dtype_specs, config, heap, pc, result, entered,
                   parked, call, ret, ConverterVars>>

\* lines 63-64
GetDtypeRecursive ==
    /\ InLoop /\ Top.dtype = NoType
    /\ Lookup(CurrentField.specification.dtype) = "recursive"
    /\ Raise(RecursiveError(CurrentField.specification.dtype))

\* lines 67-68
GetDtypeUnknown ==
    /\ InLoop /\ Top.dtype = NoType
    /\ Lookup(CurrentField.specification.dtype) = "unknown"
    /\ Raise(UnknownError(CurrentField.specification.dtype))

\* line 71: self._building.add(dtype_name)
Marked(dtype_name) == building \cup {dtype_name}
\* line 75 left out
NeverUnmarked(dtype_name) == building
\* line 75: self._building.remove(dtype_name)
Unmarked(dtype_name) == building \ {dtype_name}

\* lines 71-73: mark the custom dtype and enter _build_model(custom_spec)
GetDtypeBuild ==
    /\ InLoop /\ Top.dtype = NoType
    /\ LET dtype_name == CurrentField.specification.dtype
       IN  /\ Lookup(dtype_name) = "build"
           /\ building' = Marked(dtype_name)
           /\ stack' = Append(stack, Frame(custom_dtype_specs[dtype_name]))
    /\ UNCHANGED <<custom_models, custom_dtype_specs, config, heap, pc, result, entered,
                   parked, call, ret, ConverterVars>>

(***************************************************************************)
(* _build_model, lines 82-124                                              *)
(***************************************************************************)
\* lines 101-121 for a field whose entry is added to model_spec_dict
BuildField ==
    /\ InLoop /\ Top.dtype # NoType
    /\ LET entry == ApplyField(Top.specification.name, CurrentField, Top.dtype)
       IN  /\ entry.ok
           /\ stack' = [stack EXCEPT ![Len(stack)] =
                          [@ EXCEPT !.out = SpecDictSet(@, entry.v),
                                    !.i = @ + 1,
                                    !.dtype = NoType]]
    /\ UNCHANGED <<custom_models, building, custom_dtype_specs, config, heap, pc, result, entered,
                   parked, call, ret, ConverterVars>>

\* lines 101-116 for a field whose allowed_values or dim raises
BuildFieldRaise ==
    /\ InLoop /\ Top.dtype # NoType
    /\ LET entry == ApplyField(Top.specification.name, CurrentField, Top.dtype)
       IN  /\ ~entry.ok
           /\ Raise(entry)

\* lines 123-124 of a custom dtype's _build_model and lines 74-76 of the
\* _get_dtype that called it: cache the model, unmark the name, return it
BuildCustomModel ==
    /\ pc = "running" /\ Len(stack) > 1
    /\ Top.i > Len(Top.specification.fields)
    /\ LET dtype_name == Top.specification.name
           id == Len(heap) + 1
       IN  /\ heap' = Append(heap, CreateModel(dtype_name, Top.out))
           /\ custom_models' = DictSet(custom_models, dtype_name, id)
           /\ building' = Unmarked(dtype_name)
           /\ stack' = [SubSeq(stack, 1, Len(stack) - 1)
                           EXCEPT ![Len(stack) - 1].dtype = TModel(id)]
    /\ UNCHANGED <<custom_dtype_specs, config, pc, result, entered,
                   parked, call, ret, ConverterVars>>

\* lines 123-124 of the root's _build_model and line 145: make returns
BuildRootModel ==
    /\ pc = "running" /\ Len(stack) = 1
    /\ Top.i > Len(Top.specification.fields)
    /\ heap' = Append(heap, CreateModel(Top.specification.name, Top.out))
    /\ result' = ModelResult(Len(heap) + 1)
    /\ stack' = <<>>
    /\ pc' = "done"
    /\ UNCHANGED <<custom_models, building, custom_dtype_specs, config, entered,
                   parked, call, ret, ConverterVars>>

Step ==
    \/ GetDtypeReturn
    \/ GetDtypeRecursive
    \/ GetDtypeUnknown
    \/ GetDtypeBuild
    \/ BuildField
    \/ BuildFieldRaise
    \/ BuildCustomModel
    \/ BuildRootModel

\* SchemaLoader._make_model is left: its maker is a local and goes with it
LoaderReturn ==
    /\ pc = "done"
    /\ pc' = "idle"
    /\ result' = NoResult
    /\ config' = NoConfig
    /\ stack' = <<>>
    /\ heap' = <<>>
    /\ custom_models' = EmptyDict
    /\ building' = {}
    /\ custom_dtype_specs' = EmptyDict
    /\ entered' = NotEntered
    /\ UNCHANGED <<parked, call, ret, ConverterVars>>

\* the caller of make has its result; the maker stays as the call left it
MakeReturn ==
    /\ pc = "done"
    /\ pc' = "idle"
    /\ result' = NoResult
    /\ config' = NoConfig
    /\ stack' = <<>>
    /\ entered' = NotEntered
    /\ UNCHANGED <<custom_models, building, custom_dtype_specs, heap,
                   parked, call, ret, ConverterVars>>

\* every call goes through SchemaLoader: one maker per call
Next ==
    \/ MakeModel
    \/ Step
    \/ LoaderReturn

Spec == Init /\ [][Next]_vars

\* one maker, used for one call after the other
NextReuse ==
    \/ Make
    \/ Step
    \/ MakeReturn

SpecReuse == Init /\ [][NextReuse]_vars

\* lines 136-145 on a new maker, for the schemas whose custom types refer
\* to each other in every way from the root's one field, the schemas whose
\* custom type has two fields, and the schemas with a field of any dtype
\* and dim
MakeChain ==
    /\ pc = "idle"
    /\ custom_models = EmptyDict /\ building = {} /\ custom_dtype_specs = EmptyDict
    /\ \/ \E r \in Registries : MakeBody(GraphConfig(<<Plain("f1", "A")>>, r))
       \/ \E a \in CustomRefs, b \in CustomRefs, c \in CustomRefs :
              MakeBody(WideConfig(a, b, c))
       \/ \E dtype \in ShapeDtypes, dim \in Dims :
              MakeBody(ShapeConfig(FieldSpec("f1", DtypeSpec(dtype, dim, PyNone, FALSE))))

NextLive ==
    \/ MakeChain
    \/ Step
    \/ LoaderReturn

\* one maker per call, and a call that has begun goes on: the interpreter
\* runs the next statement of make, _get_dtype or _build_model whenever
\* there is one
SpecLive == Init /\ [][NextLive]_vars /\ WF_vars(Step)

(***************************************************************************)
(* Two threads that call make on one maker.  The interpreter may hand over *)
(* to the other thread between any two bytecodes; the model hands over     *)
(* between two actions, which is some of the schedules the interpreter     *)
(* has.  The fields of the maker are the instance's (lines 22-26) and so   *)
(* are shared; config, the frames and the result are each call's own.      *)
(***************************************************************************)
ThisCall == [config |-> config, stack |-> stack, pc |-> pc, result |-> result]

\* the running thread is suspended and the other one resumed
Switch ==
    /\ parked # ThisCall
    /\ parked' = ThisCall
    /\ config' = parked.config
    /\ stack' = parked.stack
    /\ pc' = parked.pc
    /\ result' = parked.result
    /\ UNCHANGED <<custom_models, building, custom_dtype_specs, heap, entered, call, ret, ConverterVars>>

\* both callers have their results; the maker stays as the calls left it
Join ==
    /\ pc = "done" /\ parked.pc = "done"
    /\ pc' = "idle"
    /\ result' = NoResult
    /\ config' = NoConfig
    /\ stack' = <<>>
    /\ parked' = NoCall
    /\ entered' = NotEntered
    /\ UNCHANGED <<custom_models, building, custom_dtype_specs, heap, call, ret, ConverterVars>>

\* make by the running thread, on the maker as it is, with a schema whose
\* root has one field of custom type A or B
MakeShared ==
    /\ pc = "idle"
    /\ \E a \in {"A", "B"}, dim \in {0, 2 + DimSlack}, r \in Registries :
          /\ r[1] \in {"int", "A", "-"} /\ r[2] \in {"int", "-"}
          /\ \A i \in 3..MaxCustom : r[i] = "-"
          /\ dim = 0 \/ a = "A"
          /\ MakeBody(GraphConfig(<<FieldSpec("f1", DtypeSpec(a, dim, PyNone, FALSE))>>, r))

NextThreads ==
    \/ MakeShared
    \/ Step
    \/ Switch
    \/ Join

SpecThreads == Init /\ [][NextThreads]_vars

(***************************************************************************)
(* What a schema says, read off the SchemaConfig alone.                    *)
(***************************************************************************)
Range(seq) == {seq[i] : i \in DOMAIN seq}

IsPrimitiveName(name) ==
    Lower(name) \in {"string", "str", "integer", "int", "number", "float",
                     "boolean", "bool"}
IsBboxName(name) == Lower(name) = "bbox"

\* the names config.custom_dtypes defines
DefinedNames(cfg) == {custom.name : custom \in Range(cfg.custom_dtypes)}

\* the definition a name stands for: the last one of the list
DefinitionOf(cfg, name) ==
    LET at == {i \in DOMAIN cfg.custom_dtypes : cfg.custom_dtypes[i].name = name}
    IN  cfg.custom_dtypes[CHOOSE i \in at : \A j \in at : j <= i]

\* the dtype names of a field list that are neither primitive nor bbox
CustomRefsOf(fields) ==
    {f.specification.dtype : f \in Range(fields)}
    \ {name \in {f.specification.dtype : f \in Range(fields)} :
          IsPrimitiveName(name) \/ IsBboxName(name)}

\* the custom types a set of dtype names refers to in one step
RefsOfNames(cfg, names) ==
    UNION {CustomRefsOf(DefinitionOf(cfg, name).fields) :
              name \in names \cap DefinedNames(cfg)}

RECURSIVE Closure(_, _)
Closure(cfg, names) ==
    LET more == names \cup RefsOfNames(cfg, names)
    IN  IF more = names THEN names ELSE Closure(cfg, more)

\* the names reached from the root fields, undefined ones included
ReachedFromRoot(cfg) == Closure(cfg, CustomRefsOf(cfg.fields))

\* the names a custom type refers to, directly or through other types
ReachedFrom(cfg, name) == Closure(cfg, RefsOfNames(cfg, {name}))

\* a custom type that refers to itself, directly or through a chain
IsCyclic(cfg, name) == name \in DefinedNames(cfg) /\ name \in ReachedFrom(cfg, name)

HasReachedCycle(cfg) == \E name \in ReachedFromRoot(cfg) : IsCyclic(cfg, name)

\* the fields of the root and of the custom types reached from it
ReachedFields(cfg) ==
    Range(cfg.fields)
    \cup UNION {Range(DefinitionOf(cfg, name).fields) :
                   name \in ReachedFromRoot(cfg) \cap DefinedNames(cfg)}

Contains(msg, token) == \E i \in DOMAIN msg : msg[i] = token

IsRecursiveError(r) ==
    r.kind = "raise" /\ r.msg[1] = "Recursive dtype definition is not allowed: "
IsUnknownError(r) ==
    r.kind = "raise" /\ r.msg[1] = "dtype " /\ r.msg[Len(r.msg)] = " not supported"
IsDimError(r) == r.kind = "raise" /\ r.msg = <<"dim > 2 not supported for now">>

\* the frames of the call at its end are the traceback of what it raised
FrameNames == [i \in DOMAIN stack |-> stack[i].specification.name]
FailedField == CurrentField

(***************************************************************************)
(* C1                                                                      *)
(***************************************************************************)
\* no field the root reaches raises anything but the recursion error
NoOtherDefect(cfg) ==
    /\ ReachedFromRoot(cfg) \subseteq DefinedNames(cfg)
    /\ \A f \in ReachedFields(cfg) :
          f.specification.dim \in 0..2 /\ f.specification.allowed_values = PyNone

\* the frames from that of the named type up to the failing one are a chain
\* of references that the failing field closes: the named type is the first
\* type of the cycle that resolution reached
NamesCycleEntry ==
    LET name == result.msg[2]
        at == {k \in 2..Len(stack) : FrameNames[k] = name}
    IN  /\ Cardinality(at) = 1
        /\ FailedField.specification.dtype = name
        /\ \A k \in at : \A j \in k..(Len(stack) - 1) :
              stack[j].specification.fields[stack[j].i].specification.dtype
                  = FrameNames[j + 1]
        /\ IsCyclic(config, name)

FreshFields == [custom_models |-> EmptyDict, building |-> {}, heap |-> <<>>]

RECURSIVE FreshGetDtype(_, _, _)
RECURSIVE FreshBuildModel(_, _, _, _, _)

\* lines 48-76; gives the dtype, or what was raised, and the fields after
FreshGetDtype(specs, m, dtype_name) ==
    IF GetPrimitiveDtype(dtype_name) # "None"
    THEN [ok |-> TRUE, v |-> TPrim(GetPrimitiveDtype(dtype_name)), m |-> m]
    ELSE IF IsBbox(dtype_name) THEN [ok |-> TRUE, v |-> TBbox, m |-> m]
    ELSE IF dtype_name \in DOMAIN m.custom_models
    THEN [ok |-> TRUE, v |-> TModel(m.custom_models[dtype_name]), m |-> m]
    ELSE IF dtype_name \in m.building
    THEN [ok |-> FALSE, e |-> RecursiveError(dtype_name), m |-> m]
    ELSE IF dtype_name \notin DOMAIN specs
    THEN [ok |-> FALSE, e |-> UnknownError(dtype_name), m |-> m]
    ELSE LET marked == [m EXCEPT !.building = @ \cup {dtype_name}]
             built == FreshBuildModel(specs, marked, specs[dtype_name], 1, <<>>)
         IN  IF ~built.ok THEN built
             ELSE [ok |-> TRUE, v |-> TModel(built.v),
                   m |-> [built.m EXCEPT
                             !.custom_models = DictSet(@, dtype_name, built.v),
                             !.building = @ \ {dtype_name}]]

\* lines 91-124 from field i on; gives the model created
FreshBuildModel(specs, m, specification, i, out) ==
    IF i > Len(specification.fields)
    THEN [ok |-> TRUE, v |-> Len(m.heap) + 1,
          m |-> [m EXCEPT !.heap = Append(@, CreateModel(specification.name, out))]]
    ELSE LET field == specification.fields[i]
             got == FreshGetDtype(specs, m, field.specification.dtype)
         IN  IF ~got.ok THEN got
             ELSE LET entry == ApplyField(specification.name, field, got.v)
                  IN  IF ~entry.ok THEN [ok |-> FALSE, e |-> entry, m |-> got.m]
                      ELSE FreshBuildModel(specs, got.m, specification, i + 1,
                                           SpecDictSet(out, entry.v))

\* lines 136-145 on a new maker
FreshMake(cfg) ==
    LET made == FreshBuildModel(Register(EmptyDict, cfg.custom_dtypes), FreshFields,
                                [name |-> cfg.name, fields |-> cfg.fields], 1, <<>>)
    IN  [result |-> IF made.ok THEN ModelResult(made.v) ELSE RaiseResult(made.e),
         custom_models |-> made.m.custom_models,
         building |-> made.m.building,
         heap |-> made.m.heap]

\* a model object with the models its fields refer to in place of their ids
RECURSIVE Unfold(_, _)
RECURSIVE UnfoldModel(_, _)
Unfold(h, type) ==
    CASE type.k = "model" -> [k |-> "model", is |-> UnfoldModel(h, type.id)]
      [] type.k = "list" -> TList(Unfold(h, type.of))
      [] type.k = "enum" -> TEnum(type.name, Unfold(h, type.base), type.members)
      [] OTHER -> type

UnfoldModel(h, id) ==
    [name |-> h[id].name, extra |-> h[id].extra,
     fields |-> [i \in DOMAIN h[id].fields |->
                    [h[id].fields[i] EXCEPT !.type = Unfold(h, @)]]]

\* what the caller of make holds: the error raised, or the model returned
Outcome(r, h) ==
    IF r.kind = "model" THEN [kind |-> "model", is |-> UnfoldModel(h, r.id)] ELSE r

(***************************************************************************)
(* C2                                                                      *)
(***************************************************************************)
\* C2: after any sequence of earlier make calls on one maker, those that
\* raised and left names in the in-progress set included, make(config) ends
\* as make(config) on a fresh maker does: the same model or the same error,
\* the same cache and in-progress set, and a registry that holds the custom
\* types of its own config only.
C2_LikeFreshMaker ==
    pc = "done" =>
        LET fresh == FreshMake(config)
        IN  /\ result = fresh.result
            /\ heap = fresh.heap
            /\ custom_models = fresh.custom_models
            /\ building = fresh.building
            /\ custom_dtype_specs = Register(EmptyDict, config.custom_dtypes)

\* a call that returns a model with a custom type that an earlier, failed
\* call left in the in-progress set
C2_Witness ==
    /\ pc = "done" /\ result.kind = "model"
    /\ entered \cap DOMAIN custom_models # {}

(***************************************************************************)
(* C3                                                                      *)
(***************************************************************************)
Resolvable(cfg, name) ==
    IsPrimitiveName(name) \/ IsBboxName(name) \/ name \in DefinedNames(cfg)

\* every field of the root and of every definition of config.custom_dtypes
AllFields(cfg) ==
    Range(cfg.fields) \cup UNION {Range(custom.fields) : custom \in Range(cfg.custom_dtypes)}

\* C3 as stated: whenever make returns a model, no custom type of
\* config.custom_dtypes refers to itself and every dtype named by a field
\* of the root or of any custom type resolves, also for a custom type that
\* no root field refers to.
C3_WholeSchemaWellFormed ==
    (pc = "done" /\ result.kind = "model") =>
        /\ \A name \in DefinedNames(config) : ~IsCyclic(config, name)
        /\ \A f \in AllFields(config) : Resolvable(config, f.specification.dtype)

\* C3 (amended): whenever make returns a model, no custom type reachable
\* from the root fields refers to itself, directly or transitively, and
\* every dtype named by a field of the root or of a reachable custom type is
\* a primitive name, bbox or the name of a custom type of
\* config.custom_dtypes.
C3_ReachedSchemaWellFormed ==
    (pc = "done" /\ result.kind = "model") =>
        /\ \A name \in ReachedFromRoot(config) : ~IsCyclic(config, name)
        /\ \A f \in ReachedFields(config) : Resolvable(config, f.specification.dtype)

\* a model over custom types, from a schema with a custom type that refers
\* to itself and that the root does not reach
C3_Witness ==
    /\ pc = "done" /\ result.kind = "model"
    /\ ReachedFromRoot(config) # {}
    /\ \E name \in DefinedNames(config) \ ReachedFromRoot(config) :
          IsCyclic(config, name)

(***************************************************************************)
(* C4                                                                      *)
(***************************************************************************)
\* C4: when resolution reaches a field whose dtype is no primitive name and
\* not bbox (whatever the case of its letters) and not, letter for letter,
\* the name of a custom type of the config, make fails with the
\* unknown-dtype error, whose message contains that dtype name.
C4_UnknownDtypeFails ==
    [][(/\ InLoop /\ Top.dtype = NoType
        /\ ~Resolvable(config, CurrentField.specification.dtype))
       => (/\ pc' = "done"
           /\ IsUnknownError(result')
           /\ Contains(result'.msg, CurrentField.specification.dtype))]_vars

\* the dtype a fails while the schema defines the custom type A
C4_Witness ==
    /\ pc = "done" /\ IsUnknownError(result)
    /\ FailedField.specification.dtype = "a"
    /\ Contains(result.msg, "a")
    /\ "A" \in DefinedNames(config)

(***************************************************************************)
(* C5                                                                      *)
(***************************************************************************)
RECURSIVE BaseOf(_)
\* the type under the lists of a field's type
BaseOf(type) == IF type.k = "list" THEN BaseOf(type.of) ELSE type

\* the fields the specification of a created model declares
SpecFieldsOf(model) ==
    IF model.name \in DOMAIN custom_dtype_specs
    THEN custom_dtype_specs[model.name].fields
    ELSE config.fields

\* the entries of model_spec_dict built so far, in the models created and in
\* the frames, and the dtypes _get_dtype has just returned, each with the
\* dtype name of its field
BuiltEntries ==
    UNION {{[dtype |-> SpecFieldsOf(heap[i])[k].specification.dtype,
             type |-> heap[i].fields[k].type] : k \in DOMAIN heap[i].fields} :
              i \in DOMAIN heap}
    \cup UNION {{[dtype |-> stack[j].specification.fields[k].specification.dtype,
                  type |-> stack[j].out[k].type] : k \in DOMAIN stack[j].out} :
                   j \in DOMAIN stack}
    \cup {[dtype |-> stack[j].specification.fields[stack[j].i].specification.dtype,
           type |-> stack[j].dtype] :
             j \in {n \in DOMAIN stack : stack[n].dtype # NoType}}

IsCustomName(name) == ~IsPrimitiveName(name) /\ ~IsBboxName(name)

\* C5: within one make call every custom type is built at most once, and
\* every field that names a custom type, at any depth, has the one model
\* object the cache holds for that name.
C5_BuiltOnceAndShared ==
    /\ \A i \in DOMAIN heap : \A j \in DOMAIN heap :
          heap[i].name = heap[j].name => i = j
    /\ \A e \in BuiltEntries :
          IsCustomName(e.dtype) =>
              /\ e.dtype \in DOMAIN custom_models
              /\ BaseOf(e.type) = TModel(custom_models[e.dtype])
              /\ heap[custom_models[e.dtype]].name = e.dtype

\* the root names two custom types and both name a third one
C5_Witness ==
    /\ pc = "done" /\ result.kind = "model"
    /\ Len(heap[result.id].fields) = 2
    /\ \E shared \in DOMAIN heap :
          /\ \A k \in 1..2 : BaseOf(heap[result.id].fields[k].type) # TModel(shared)
          /\ Cardinality({i \in DOMAIN heap :
                            /\ \E k \in 1..2 :
                                  BaseOf(heap[result.id].fields[k].type) = TModel(i)
                            /\ \E k \in DOMAIN heap[i].fields :
                                  BaseOf(heap[i].fields[k].type) = TModel(shared)}) = 2

(***************************************************************************)
(* C6                                                                      *)
(***************************************************************************)
\* C6: each compile error of make (unknown dtype, recursive definition,
\* unsupported dim) carries the name of the offending type or field.
C6_ErrorsNameOffender ==
    (pc = "done" /\ (IsUnknownError(result) \/ IsRecursiveError(result)
                     \/ IsDimError(result))) =>
        \/ Contains(result.msg, FailedField.name)
        \/ Contains(result.msg, FailedField.specification.dtype)
        \/ Contains(result.msg, Top.specification.name)

(***************************************************************************)
(* What the built types accept: the validation pydantic does for the       *)
(* types _build_model hands to create_model (lax mode, the default).       *)
(***************************************************************************)
IsNumber(v) == v.t \in {"int", "float", "bool"}
NumberOf(v) == IF v.t = "bool" THEN (IF v.v THEN 1 ELSE 0) ELSE v.v

\* Python's ==
PyEq(a, b) ==
    IF IsNumber(a) /\ IsNumber(b) THEN NumberOf(a) = NumberOf(b)
    ELSE a.t = b.t /\ a = b

ValidatesPrimitive(p, v) ==
    CASE p = "str" -> v.t = "str"
      [] p = "int" -> IsNumber(v) \/ (v.t = "str" /\ v.v \in NumericStrings)
      [] p = "float" -> IsNumber(v) \/ (v.t = "str" /\ v.v \in NumericStrings)
      [] p = "bool" ->
           \/ v.t = "bool"
           \/ (v.t \in {"int", "float"} /\ v.v \in {0, 1})
           \/ (v.t = "str" /\ v.v \in {"0", "1", "true", "false"})

RECURSIVE Validates(_, _)
RECURSIVE ValidatesModel(_, _)

\* a document against a model class: with extra = "forbid" no key but the
\* declared ones, every field without a default present, every value of its
\* field's type
ValidatesModel(model, v) ==
    /\ v.t = "dict"
    /\ model.extra = "forbid" =>
          DOMAIN v.v \subseteq {model.fields[k].name : k \in DOMAIN model.fields}
    /\ \A k \in DOMAIN model.fields :
          IF model.fields[k].name \in DOMAIN v.v
          THEN Validates(model.fields[k].type, v.v[model.fields[k].name])
          ELSE model.fields[k].default = "None"

Validates(type, v) ==
    CASE type.k = "prim" -> ValidatesPrimitive(type.p, v)
      [] type.k = "bbox" -> ValidatesModel(Bbox, v)
      [] type.k = "model" -> ValidatesModel(heap[type.id], v)
      [] type.k = "enum" -> \E member \in type.members : PyEq(member, v)
      [] type.k = "list" ->
           v.t = "list" /\ \A n \in DOMAIN v.v : Validates(type.of, v.v[n])

(***************************************************************************)
(* C7                                                                      *)
(***************************************************************************)
\* the fields added to model_spec_dict so far, each with its FieldSpec
BuiltFields ==
    UNION {{[field |-> SpecFieldsOf(heap[i])[k], type |-> heap[i].fields[k].type] :
               k \in DOMAIN heap[i].fields} : i \in DOMAIN heap}
    \cup UNION {{[field |-> stack[j].specification.fields[k],
                  type |-> stack[j].out[k].type] : k \in DOMAIN stack[j].out} :
                   j \in DOMAIN stack}

\* the shape the claim gives dim
ShapeOf(dim, element) ==
    CASE dim = 0 -> element
      [] dim = 1 -> TList(element)
      [] dim = 2 -> TList(TList(element))

\* the call ended in lines 101-116 of the field it was at
FailedApplyingField == pc = "done" /\ result.kind = "raise" /\ Top.dtype # NoType

\* the allowed_values of the field, if any, all coerce to its base dtype
CoercesAll(field, dtype) ==
    field.specification.allowed_values.t = "list" =>
        \A n \in DOMAIN field.specification.allowed_values.v :
            CallDtype(dtype, field.specification.allowed_values.v[n]).ok

BaseDtypeOf(e) ==
    IF BaseOf(e.type).k = "enum" THEN BaseOf(e.type).base ELSE BaseOf(e.type)

\* the declared values, each coerced to the base dtype
CoercedValues(e) ==
    {CallDtype(BaseDtypeOf(e), e.field.specification.allowed_values.v[n]).v :
        n \in DOMAIN e.field.specification.allowed_values.v}

\* values offered to a field
Offered ==
    {PyInt(1), PyInt(2), PyInt(3), PyFloat(1), PyFloat(3), PyStr("a"), PyStr("1"),
     PyStr("2"), PyStr("c"), PyBool(TRUE), PyBool(FALSE)}

\* the element type is the enumeration of exactly the coerced values
IsEnumOfCoerced(e) ==
    /\ BaseOf(e.type).k = "enum"
    /\ BaseOf(e.type).members = CoercedValues(e)
    /\ \A v \in Offered :
          Validates(BaseOf(e.type), v) <=> \E c \in CoercedValues(e) : PyEq(c, v)
    /\ e.type = ShapeOf(e.field.specification.dim, BaseOf(e.type))

\* C8 as stated: if allowed_values is set on a field, the field's effective
\* type is an enumeration whose members are exactly the declared values
\* coerced to the base scalar type, and with dim 1 or 2 the enumeration is
\* the element type of the list.
C8_SetMeansEnum ==
    \A e \in BuiltFields :
        e.field.specification.allowed_values # PyNone => IsEnumOfCoerced(e)

\* C8 (amended): if allowed_values is a non-empty list, the field's
\* effective type is an enumeration whose members are exactly the declared
\* values coerced to the base scalar type: a value is accepted if and only
\* if it equals one of them, and with dim 1 or 2 the enumeration is the
\* element type of the list; an empty allowed_values list is treated like
\* an unset one and the field keeps the raw base type.
C8_NonEmptyMeansEnum ==
    \A e \in BuiltFields :
        IF e.field.specification.allowed_values # PyNone
           /\ Len(e.field.specification.allowed_values.v) > 0
        THEN IsEnumOfCoerced(e)
        ELSE BaseOf(e.type).k # "enum"

\* a list of an enumeration over int whose values were declared as "1" and 2
C8_Witness ==
    /\ pc = "done" /\ result.kind = "model"
    /\ \E e \in BuiltFields :
          /\ e.field.specification.allowed_values = PyList(<<PyStr("1"), PyInt(2)>>)
          /\ e.field.specification.dim = 1
          /\ BaseOf(e.type).members = {PyInt(1), PyInt(2)}

(***************************************************************************)
(* C9                                                                      *)
(***************************************************************************)
RECURSIVE SampleOf(_, _)
\* a document the type accepts; the mappings at nesting level extra_at of
\* it carry one key more, "undeclared" (none does when extra_at < 0)
SampleOf(type, extra_at) ==
    CASE type.k = "prim" ->
           (CASE type.p = "str" -> PyStr("a")
              [] type.p = "int" -> PyInt(1)
              [] type.p = "float" -> PyFloat(1)
              [] type.p = "bool" -> PyBool(TRUE))
      [] type.k = "enum" -> CHOOSE member \in type.members : TRUE
      [] type.k = "list" -> PyList(<<SampleOf(type.of, extra_at)>>)
      [] type.k \in {"model", "bbox"} ->
           LET model == IF type.k = "bbox" THEN Bbox ELSE heap[type.id]
               names == {model.fields[k].name : k \in DOMAIN model.fields}
               keys == IF extra_at = 0 THEN names \cup {"undeclared"} ELSE names
           IN  PyDict([key \in keys |->
                          IF key \notin names THEN PyInt(1)
                          ELSE LET k == CHOOSE k \in DOMAIN model.fields :
                                            model.fields[k].name = key
                               IN  SampleOf(model.fields[k].type, extra_at - 1)])

\* the nesting levels at which documents are given an undeclared key
Levels == 0..MaxCustom

\* C9: every structure type make produces is closed: the root model, every
\* custom-type model and the bbox type reject a document with a field that
\* is not declared, at every nesting level.
C9_ModelsAreClosed ==
    \A i \in DOMAIN heap :
        /\ Validates(TModel(i), SampleOf(TModel(i), 0 - 1))
        /\ \A level \in Levels :
              SampleOf(TModel(i), level) # SampleOf(TModel(i), 0 - 1)
                  => ~Validates(TModel(i), SampleOf(TModel(i), level))

\* a root model over a custom type with a list of bbox, whose documents
\* have mappings at three levels
C9_Witness ==
    /\ pc = "done" /\ result.kind = "model"
    /\ SampleOf(TModel(result.id), 2) # SampleOf(TModel(result.id), 0 - 1)
    /\ \E i \in DOMAIN heap : \E k \in DOMAIN heap[i].fields :
          heap[i].fields[k].type = TList(TBbox)

(***************************************************************************)
(* C10                                                                     *)
(***************************************************************************)
HasDuplicateName(cfg) ==
    \E i \in DOMAIN cfg.custom_dtypes : \E j \in DOMAIN cfg.custom_dtypes :
        i # j /\ cfg.custom_dtypes[i].name = cfg.custom_dtypes[j].name

\* C10: make of a config whose custom_dtypes holds two definitions with the
\* same name fails with a DuplicateCustomType error that carries the name.
C10_DuplicateNameFails ==
    (pc = "done" /\ HasDuplicateName(config)) =>
        /\ result.kind = "raise"
        /\ \E i \in DOMAIN config.custom_dtypes : \E j \in DOMAIN config.custom_dtypes :
              /\ i # j /\ config.custom_dtypes[i].name = config.custom_dtypes[j].name
              /\ Contains(result.msg, "DuplicateCustomType")
              /\ Contains(result.msg, config.custom_dtypes[i].name)

(***************************************************************************)
(* C11                                                                     *)
(***************************************************************************)
\* C11: when two make calls on one SchemaModelMaker interleave, neither
\* observes or changes the other's cache, in-progress set or registry, so
\* each call ends with the result it gives when run alone: the model or the
\* error of make(config) on a maker of its own.
C11_CallsAreIsolated ==
    pc = "done" =>
        LET alone == FreshMake(config)
        IN  Outcome(result, heap) = Outcome(alone.result, alone.heap)

(***************************************************************************)
(* The template formatter, src/src/data_cutter/template_formatter/         *)
(* formatter.py.  A scope (Dict[str, Any]) is a Python dict, which keeps   *)
(* its keys in insertion order: [t |-> "dict", v |-> <<[k, v], ...>>].     *)
(* A template string is the sequence of its literal texts and replacement  *)
(* fields: "v={x}" is <<Lit("v="), Field("x")>>.                           *)
(***************************************************************************)
Dict(items) == [t |-> "dict", v |-> items]
Item(k, v) == [k |-> k, v |-> v]
Keys(d) == {d.v[i].k : i \in DOMAIN d.v}
Has(d, key) == key \in Keys(d)
Get(d, key) == d.v[CHOOSE i \in DOMAIN d.v : d.v[i].k = key].v

\* d[key] = value: an existing key keeps its place, a new one goes last
Put(d, key, value) ==
    IF Has(d, key)
    THEN Dict([i \in DOMAIN d.v |-> IF d.v[i].k = key THEN Item(key, value) ELSE d.v[i]])
    ELSE Dict(Append(d.v, Item(key, value)))

\* {**a, **b}
RECURSIVE Merged(_, _)
Merged(a, b) ==
    IF b.v = <<>> THEN a
    ELSE Merged(Put(a, b.v[1].k, b.v[1].v), Dict(Tail(b.v)))

Lit(s) == [lit |-> TRUE, s |-> s]
Field(name) == [lit |-> FALSE, s |-> name]

\* types/prompt_template/template.py
TextTemplate(content, input_variables) ==
    [type |-> "text", content |-> content, input_variables |-> input_variables]
ImageTemplate(input_name) == [type |-> "image", input_name |-> input_name]
StaticContentTemplateGroup(items) == [type |-> "static", items |-> items]
IterableContentTemplateGroup(items, input_key) ==
    [type |-> "iterable", items |-> items, input_key |-> input_key]

\* types/prompt/content.py
TextContentBlock(text) == [type |-> "text", text |-> text]
ImageContentBlock(url) ==
    [type |-> "image_url", image_url |-> [url |-> url, detail |-> "None", format |-> ""]]

\* str(value) and repr(value) of the values a scope holds
RECURSIVE ReprOf(_)
RECURSIVE JoinReprs(_)
JoinReprs(values) ==
    IF Len(values) = 0 THEN ""
    ELSE IF Len(values) = 1 THEN ReprOf(values[1])
    ELSE ReprOf(values[1]) \o ", " \o JoinReprs(Tail(values))

ReprOf(v) ==
    CASE v.t = "str" -> "'" \o v.v \o "'"
      [] v.t = "list" -> "[" \o JoinReprs(v.v) \o "]"
      [] v.t = "dict" ->
           "{" \o JoinReprs([i \in DOMAIN v.v |->
                                PyStr(ReprOf(PyStr(v.v[i].k)) \o ": " \o ReprOf(v.v[i].v))])
               \o "}"
      [] OTHER -> PyStrOf(v)

StrOf(v) == IF v.t \in {"list", "dict"} THEN ReprOf(v) ELSE PyStrOf(v)

\* template.format(**variables) with keyword arguments from a dict: a
\* replacement field whose name is no keyword raises KeyError
RECURSIVE StrFormat(_, _)
StrFormat(content, kwargs) ==
    IF Len(content) = 0 THEN Returned("")
    ELSE LET rest == StrFormat(Tail(content), kwargs)
             head == content[1]
         IN  IF ~head.lit /\ ~Has(kwargs, head.s)
             THEN Raised("KeyError", Repr(head.s))
             ELSE IF ~rest.ok THEN rest
             ELSE Returned((IF head.lit THEN head.s ELSE StrOf(Get(kwargs, head.s)))
                           \o rest.v)

(***************************************************************************)
(* ContentTemplateFormatter, lines 26-56                                   *)
(***************************************************************************)
\* f(**variables) with a value that is no dict
NotAMapping == Raised("TypeError", <<"argument after ** must be a mapping">>)
\* variables.get and variables.items of a value that is no dict
NoAttribute(name) == Raised("AttributeError", <<"object has no attribute ", name>>)

\* lines 46-49
FormatText(template, variables) ==
    IF variables.t # "dict" THEN NotAMapping
    ELSE LET formatted_text == StrFormat(template.content, variables)
         IN  IF ~formatted_text.ok THEN formatted_text
             ELSE Returned(<<TextContentBlock(formatted_text.v)>>)

\* lines 51-56; ImageUrlObject.url is declared str, and pydantic turns no
\* other value into one
FormatImage(template, variables) ==
    IF variables.t # "dict" THEN NoAttribute("get")
    ELSE LET image_data == IF Has(variables, template.input_name)
                           THEN Get(variables, template.input_name) ELSE PyNone
         IN  IF ~Truthy(image_data) THEN Returned(<<>>)
             ELSE IF image_data.t # "str"
             THEN Raised("ValidationError", <<"url: Input should be a valid string">>)
             ELSE Returned(<<ImageContentBlock(image_data.v)>>)

\* lines 29-44
ContentFormat(content_template, variables) ==
    IF content_template.type = "text" THEN FormatText(content_template, variables)
    ELSE IF content_template.type = "image" THEN FormatImage(content_template, variables)
    ELSE Returned(<<>>)

(***************************************************************************)
(* ContentTemplateGroupFormatter._find_iteration_source, lines 120-192.    *)
(* all_vars is a set of str: the order in which Python iterates it is not  *)
(* fixed by the program (it follows the hashes of the strings, which       *)
(* change from one process to the next).  order is the order of the        *)
(* process: a sequence of all names, and a set is iterated in that order.  *)
(***************************************************************************)
\* lines 142-147
AllVars(group) ==
    UNION {IF group.items[i].type = "text" THEN Range(group.items[i].input_variables)
           ELSE IF group.items[i].type = "image" THEN {group.items[i].input_name}
           ELSE {} : i \in DOMAIN group.items}

InOrder(order, names) == SelectSeq(order, LAMBDA n : n \in names)

\* a in b of two str, for the strings of the model: none is a part of
\* another one, and the empty string is in every string
Substring(a, b) == a = b \/ a = ""

\* name in variables and isinstance(variables[name], list), lines 131, 155
IsListIn(variables, name) ==
    CASE variables.t = "dict" ->
           Returned(Has(variables, name) /\ Get(variables, name).t = "list")
      [] variables.t = "str" ->
           IF Substring(name, variables.v)
           THEN Raised("TypeError", <<"string indices must be integers">>)
           ELSE Returned(FALSE)
      [] variables.t = "list" ->
           IF \E i \in DOMAIN variables.v : variables.v[i] = PyStr(name)
           THEN Raised("TypeError", <<"list indices must be integers or slices">>)
           ELSE Returned(FALSE)
      [] OTHER -> Raised("TypeError", <<"argument of type is not iterable">>)

\* lines 131-139 without the wrapping of line 138: any list is returned
SourceOfKeyAsIs(key, variables) ==
    LET is_list == IsListIn(variables, key)
    IN  IF ~is_list.ok THEN is_list
        ELSE IF ~is_list.v THEN Returned(<<>>)
        ELSE Returned(Get(variables, key).v)

\* lines 131-139: Strategy 0
SourceOfKey(key, variables) ==
    LET is_list == IsListIn(variables, key)
    IN  IF ~is_list.ok THEN is_list
        ELSE IF ~is_list.v THEN Returned(<<>>)
        ELSE LET iteration_list == Get(variables, key).v
             IN  IF Len(iteration_list) > 0 /\ iteration_list[1].t = "dict"
                 THEN Returned(iteration_list)
                 ELSE Returned([i \in DOMAIN iteration_list |->
                                   Dict(<<Item(key, iteration_list[i])>>)])

\* lines 160-168 without the test of line 166: the first list of dicts
SourceOfFirstDictList(all_vars, variables) ==
    IF variables.t # "dict" THEN NoAttribute("items")
    ELSE LET fits(value) == /\ value.t = "list" /\ Len(value.v) > 0
                            /\ value.v[1].t = "dict"
             found == {i \in DOMAIN variables.v : fits(variables.v[i].v)}
         IN  IF found = {} THEN Returned(<<>>)
             ELSE Returned(variables.v[CHOOSE i \in found : \A j \in found : i <= j].v.v)

\* lines 160-168: Strategy 2
SourceOfAnyList(all_vars, variables) ==
    IF variables.t # "dict" THEN NoAttribute("items")
    ELSE LET fits(value) == /\ value.t = "list" /\ Len(value.v) > 0
                            /\ value.v[1].t = "dict"
                            /\ \E var \in Range(all_vars) : Has(value.v[1], var)
             found == {i \in DOMAIN variables.v : fits(variables.v[i].v)}
         IN  IF found = {} THEN Returned(<<>>)
             ELSE Returned(variables.v[CHOOSE i \in found : \A j \in found : i <= j].v.v)

\* lines 184-191 without lines 189-190: only the lists go into the dict
IterVarsOfLists(all_vars, variables, i) ==
    LET present == SelectSeq(all_vars, LAMBDA n : Has(variables, n)
                                                  /\ Get(variables, n).t = "list")
    IN  IF \E k \in DOMAIN present : i > Len(Get(variables, present[k]).v)
        THEN Raised("IndexError", <<"list index out of range">>)
        ELSE Returned(Dict([k \in DOMAIN present |->
                 Item(present[k], Get(variables, present[k]).v[i])]))

\* lines 184-191: the dict of one index
IterVars(all_vars, variables, i) ==
    LET present == SelectSeq(all_vars, LAMBDA n : Has(variables, n))
    IN  IF \E k \in DOMAIN present :
              /\ Get(variables, present[k]).t = "list"
              /\ i > Len(Get(variables, present[k]).v)
        THEN Raised("IndexError", <<"list index out of range">>)
        ELSE Returned(Dict([k \in DOMAIN present |->
                 Item(present[k],
                      IF Get(variables, present[k]).t = "list"
                      THEN Get(variables, present[k]).v[i]
                      ELSE Get(variables, present[k]))]))

\* lines 170-192: the first list found decides
SourceOfLists(all_vars, list_vars, variables) ==
    LET first_list == Get(variables, list_vars[1]).v
        list_length == Len(first_list)
        dicts == [i \in 1..list_length |-> IterVars(all_vars, variables, i)]
    IN  IF list_length > 0 /\ first_list[1].t = "dict" THEN Returned(first_list)
        ELSE IF \E i \in 1..list_length : ~dicts[i].ok
        THEN dicts[CHOOSE i \in 1..list_length : ~dicts[i].ok]
        ELSE Returned([i \in 1..list_length |-> dicts[i].v])

\* lines 129-192
FindIterationSource(group, variables, order) ==
    IF Truthy(group.input_key) THEN SourceOfKey(group.input_key.v, variables)
    ELSE LET all_vars == InOrder(order, AllVars(group))
             tests == [i \in DOMAIN all_vars |-> IsListIn(variables, all_vars[i])]
             failed == {i \in DOMAIN all_vars : ~tests[i].ok}
             list_vars == SelectSeq(all_vars, LAMBDA n : IsListIn(variables, n).v)
         IN  IF all_vars = <<>> THEN Returned(<<>>)
             ELSE IF failed # {} THEN tests[CHOOSE i \in failed : \A j \in failed : i <= j]
             ELSE IF list_vars = <<>> THEN SourceOfAnyList(all_vars, variables)
             ELSE SourceOfLists(all_vars, list_vars, variables)

(***************************************************************************)
(* ContentTemplateGroupFormatter.format, lines 65-118                      *)
(***************************************************************************)
\* line 109: {**variables, **item_vars}
MergedVars(variables, item_vars) ==
    IF variables.t # "dict" \/ item_vars.t # "dict"
    THEN Raised("TypeError", <<"object is not a mapping">>)
    ELSE Returned(Merged(variables, item_vars))

\* results.extend(...) over a list of results, up to the first that raised
RECURSIVE Extend(_)
Extend(results) ==
    IF Len(results) = 0 THEN Returned(<<>>)
    ELSE IF ~results[1].ok THEN results[1]
    ELSE LET rest == Extend(Tail(results))
         IN  IF ~rest.ok THEN rest ELSE Returned(results[1].v \o rest.v)

\* lines 86-93
FormatStatic(group, variables) ==
    Extend([i \in DOMAIN group.items |-> ContentFormat(group.items[i], variables)])

RECURSIVE FormatIterable(_, _, _)
\* lines 107-116 for one element of the iteration source
FormatPass(group, variables, order, item_vars) ==
    LET merged_vars == MergedVars(variables, item_vars)
    IN  IF ~merged_vars.ok THEN merged_vars
        ELSE Extend([i \in DOMAIN group.items |->
                        IF group.items[i].type = "iterable"
                        THEN FormatIterable(group.items[i], merged_vars.v, order)
                        ELSE ContentFormat(group.items[i], merged_vars.v)])

\* lines 95-118
FormatIterable(group, variables, order) ==
    LET iteration_source == FindIterationSource(group, variables, order)
    IN  IF ~iteration_source.ok THEN iteration_source
        ELSE Extend([n \in DOMAIN iteration_source.v |->
                        FormatPass(group, variables, order, iteration_source.v[n])])

\* lines 65-84
GroupFormat(group, variables, order) ==
    IF group.type = "static" THEN FormatStatic(group, variables)
    ELSE IF group.type = "iterable" THEN FormatIterable(group, variables, order)
    ELSE Returned(<<>>)

(***************************************************************************)
(* PromptTemplateFormatter.format, lines 217-267                           *)
(***************************************************************************)
SingleContentMessageTemplate(role, content) ==
    [type |-> "single", role |-> role, content |-> content]
IterableContentMessageTemplate(role, contents, input_key) ==
    [type |-> "iterable", role |-> role, contents |-> contents, input_key |-> input_key]

\* lines 247-257
IterationData(message_template, input_data) ==
    IF Truthy(message_template.input_key) /\ Has(input_data, message_template.input_key.v)
    THEN LET iteration_data == Get(input_data, message_template.input_key.v)
         IN  IF iteration_data.t # "list" THEN <<iteration_data>> ELSE iteration_data.v
    ELSE <<>>

\* lines 259-263: the blocks of one message
IterableMessageBlocks(message_template, input_data, order) ==
    LET iteration_data == IterationData(message_template, input_data)
    IN  Extend([n \in DOMAIN iteration_data |->
                   Extend([g \in DOMAIN message_template.contents |->
                              GroupFormat(message_template.contents[g],
                                          iteration_data[n], order)])])

\* lines 233-265 for one message template: its (role, content_blocks)
MessageFormat(message_template, input_data, order) ==
    LET content_blocks ==
            IF message_template.type = "single"
            THEN ContentFormat(message_template.content, input_data)
            ELSE IterableMessageBlocks(message_template, input_data, order)
    IN  IF ~content_blocks.ok THEN content_blocks
        ELSE Returned(<<[role |-> message_template.role, blocks |-> content_blocks.v]>>)

\* lines 230-267
PromptFormat(templates, input_data, order) ==
    Extend([m \in DOMAIN templates |-> MessageFormat(templates[m], input_data, order)])

(***************************************************************************)
(* The prompt formatters, src/src/data_cutter/formatter/base.py and        *)
(* anthropic.py, over types/prompt/template.py.                            *)
(***************************************************************************)
PromptTextTemplate(value, input_variables) ==
    [type |-> "text", value |-> value, input_variables |-> input_variables]
PromptImageTemplate(input_name) == [type |-> "image", input_name |-> input_name]

\* the template string as it was written
RECURSIVE Written(_)
Written(value) ==
    IF Len(value) = 0 THEN ""
    ELSE (IF value[1].lit THEN value[1].s ELSE "{" \o value[1].s \o "}")
         \o Written(Tail(value))

\* jinja2's Template(value).render(**variables): an undefined name renders
\* as the empty string
RECURSIVE JinjaRender(_, _)
JinjaRender(value, variables) ==
    IF Len(value) = 0 THEN ""
    ELSE (IF value[1].lit THEN value[1].s
          ELSE IF Has(variables, value[1].s) THEN StrOf(Get(variables, value[1].s))
          ELSE "")
         \o JinjaRender(Tail(value), variables)

\* base.py lines 10-19
FormatString(value, variables, template_format) ==
    IF template_format = "f-string" THEN StrFormat(value, variables)
    ELSE IF template_format = "jinja2" THEN Returned(JinjaRender(value, variables))
    ELSE Returned(Written(value))

\* base.py lines 31-34: {k: variables[k] for k in input_variables if k in variables}
FilteredVars(input_variables, variables) ==
    LET present == SelectSeq(input_variables, LAMBDA k : Has(variables, k))
        first(i) == \A j \in 1..(i - 1) : present[j] # present[i]
        kept == SelectSeq([i \in DOMAIN present |-> [k |-> present[i], first |-> first(i)]],
                          LAMBDA e : e.first)
    IN  Dict([i \in DOMAIN kept |-> Item(kept[i].k, Get(variables, kept[i].k))])

\* base.py lines 22-37 (and the same lines of openai.py and anthropic.py)
ProcessTextTemplate(item, variables, template_format) ==
    LET formatted_text == FormatString(item.value,
                                       FilteredVars(item.input_variables, variables),
                                       template_format)
    IN  IF ~formatted_text.ok THEN formatted_text
        ELSE Returned(<<[type |-> "text", text |-> formatted_text.v]>>)

(***************************************************************************)
(* AnthropicPromptFormatter._process_image_template, anthropic.py lines    *)
(* 34-78.  The str of an image is kept by its pieces: the separators ":",  *)
(* ";" and "," and the texts between them, none of which holds a           *)
(* separator.                                                              *)
(***************************************************************************)
Chars(pieces) == [t |-> "str", v |-> pieces]
Separators == {":", ";", ","}

RECURSIVE Joined(_)
Joined(pieces) == IF Len(pieces) = 0 THEN "" ELSE pieces[1] \o Joined(Tail(pieces))

\* the pieces before and after the first sep; after is <<>> with found
\* FALSE when there is none
SplitOnce(pieces, sep) ==
    LET at == {i \in DOMAIN pieces : pieces[i] = sep}
    IN  IF at = {} THEN [found |-> FALSE, before |-> pieces, after |-> <<>>]
        ELSE LET i == CHOOSE i \in at : \A j \in at : i <= j
             IN  [found |-> TRUE, before |-> SubSeq(pieces, 1, i - 1),
                  after |-> SubSeq(pieces, i + 1, Len(pieces))]

\* image_url.startswith("data:")
StartsWithData(pieces) == Len(pieces) >= 2 /\ pieces[1] = "data" /\ pieces[2] = ":"

\* line 52
ValidMediaTypes == {"image/jpeg", "image/png", "image/gif", "image/webp"}

\* line 67: the except clause raises the ValueError again, with a prefix
InvalidDataUrl(msg) == Raised("ValueError", <<"Invalid base64 data URL format: ">> \o msg)

\* lines 48-49 with the data cut at the last comma
MediaAndDataLastComma(pieces) ==
    LET at == {i \in DOMAIN pieces : pieces[i] = ","}
        last == CHOOSE i \in at : \A j \in at : i >= j
        header == SubSeq(pieces, 1, last - 1)
    IN  IF at = {} THEN InvalidDataUrl(<<"not enough values to unpack">>)
        ELSE Returned([media_type_part |->
                          Joined(SplitOnce(SplitOnce(SplitOnce(header, ":").after, ":").before,
                                           ";").before),
                       base64_data |-> Joined(SubSeq(pieces, last + 1, Len(pieces)))])

\* lines 48-49: split(",", 1), then split(":")[1].split(";")[0]
MediaAndData(pieces) ==
    LET cut == SplitOnce(pieces, ",")
        after_colon == SplitOnce(cut.before, ":").after
    IN  IF ~cut.found THEN InvalidDataUrl(<<"not enough values to unpack">>)
        ELSE Returned([media_type_part |->
                          Joined(SplitOnce(SplitOnce(after_colon, ":").before, ";").before),
                       base64_data |-> Joined(cut.after)])

\* lines 41-78
ProcessImageTemplate(item, variables) ==
    LET image_url == IF Has(variables, item.input_name)
                     THEN Get(variables, item.input_name) ELSE Chars(<<>>)
        parsed == MediaAndData(image_url.v)
    IN  IF image_url.t # "str" THEN NoAttribute("startswith")
        ELSE IF ~StartsWithData(image_url.v)
        THEN Returned(<<[type |-> "image",
                         source |-> [type |-> "url", url |-> Joined(image_url.v)]]>>)
        ELSE IF ~parsed.ok THEN parsed
        ELSE IF parsed.v.media_type_part \notin ValidMediaTypes
        THEN InvalidDataUrl(<<"Unsupported media type: ", parsed.v.media_type_part>>)
        ELSE Returned(<<[type |-> "image",
                         source |-> [type |-> "base64",
                                     media_type |-> parsed.v.media_type_part,
                                     data |-> parsed.v.base64_data]]>>)

(***************************************************************************)
(* The calls of the template formatter: the templates and scopes they are  *)
(* given.  The code branches on the types of the values of a scope, never  *)
(* on the values: a list is given by its length and by the kind of its     *)
(* elements, and the element at index i of the list under key k is one     *)
(* that occurs nowhere else.                                               *)
(***************************************************************************)
ScopeKeys == <<"rows", "x", "y">>
KeyNo(key) == CHOOSE k \in DOMAIN ScopeKeys : ScopeKeys[k] = key

ElementKinds == {"scalar", "x", "y", "xy", "z", "x-scalar", "scalar-x", "nest"}

Element(kind, k, i) ==
    LET n == PyInt(10 * (k - 1) + i)
    IN  CASE kind = "scalar" -> n
          [] kind = "x" -> Dict(<<Item("x", n)>>)
          [] kind = "y" -> Dict(<<Item("y", n)>>)
          [] kind = "xy" -> Dict(<<Item("x", n), Item("y", PyStr(StrOfInt(i)))>>)
          [] kind = "z" -> Dict(<<Item("z", n)>>)
          [] kind = "x-scalar" -> IF i = 1 THEN Dict(<<Item("x", n)>>) ELSE n
          [] kind = "scalar-x" -> IF i = 1 THEN n ELSE Dict(<<Item("x", n)>>)
          [] kind = "nest" ->
               Dict(<<Item("x", n),
                      Item("y", PyList(<<PyInt(100 * i + 1), PyInt(100 * i + 2)>>))>>)

ListValues(k) ==
    {PyList([i \in 1..n |-> Element(kind, k, i)]) : n \in 0..MaxList, kind \in ElementKinds}

\* what a scope may hold under its k-th key
ScopeValues(k) == {PyInt(90 + k), PyStr("s")} \cup ListValues(k)

\* the scopes of at most two keys, in either order
Scopes ==
    {Dict(<<>>)}
    \cup UNION {{Dict(<<Item(ScopeKeys[k], v)>>) : v \in ScopeValues(k)} :
                  k \in DOMAIN ScopeKeys}
    \cup UNION {{Dict(<<Item(ScopeKeys[kv[1]], v), Item(ScopeKeys[kv[2]], w)>>) :
                    v \in ScopeValues(kv[1]), w \in ScopeValues(kv[2])} :
                  kv \in {p \in (DOMAIN ScopeKeys) \X (DOMAIN ScopeKeys) : p[1] # p[2]}}

\* the orders in which a process may iterate a set of names
Orders == {<<"x", "y">>, <<"y", "x">>}

\* the items of a group
TextHi == TextTemplate(<<Lit("hi")>>, <<>>)
TextX == TextTemplate(<<Lit("v="), Field("x")>>, <<"x">>)
ImageY == ImageTemplate("y")
ItemLists == {<<TextHi>>, <<TextX>>, <<ImageY>>, <<TextX, ImageY>>, <<TextX, TextHi>>}

InputKeys == {PyNone, PyStr(""), PyStr("rows"), PyStr("x")}

\* the call: its name and arguments
SourceCall(group, variables, order) ==
    [op |-> "_find_iteration_source", group |-> group, variables |-> variables,
     order |-> InOrder(order, AllVars(group))]

FormatterVars == <<call, ret>>
MakerVars == <<custom_models, building, custom_dtype_specs, config, stack, heap,
               pc, result, entered, parked>>

\* ContentTemplateGroupFormatter._find_iteration_source(group, variables)
FindIterationSourceCall ==
    /\ call = NoFormat
    /\ \E items \in ItemLists, input_key \in InputKeys, variables \in Scopes,
          order \in Orders :
          LET group == IterableContentTemplateGroup(items, input_key)
          IN  /\ call' = SourceCall(group, variables, order)
              /\ ret' = FindIterationSource(group, variables, order)
    /\ UNCHANGED <<MakerVars, ConverterVars>>

\* an iterable group inside an iterable group
NestedGroups ==
    {IterableContentTemplateGroup(<<TextTemplate(<<Lit("w="), Field("y")>>, <<"y">>)>>,
                                  input_key) : input_key \in {PyNone, PyStr("y")}}

GroupItemLists ==
    ItemLists \cup {<<TextX, g>> : g \in NestedGroups} \cup {<<g, TextX>> : g \in NestedGroups}

Groups ==
    {StaticContentTemplateGroup(items) : items \in ItemLists}
    \cup {IterableContentTemplateGroup(items, input_key) :
              items \in GroupItemLists, input_key \in InputKeys}

\* ContentTemplateGroupFormatter.format(group, variables)
GroupFormatCall ==
    /\ call = NoFormat
    /\ \E group \in Groups, variables \in Scopes, order \in Orders :
          \* the order shows only where a set of two names is iterated
          /\ (group.type = "static" \/ Truthy(group.input_key)
                 \/ Cardinality(AllVars(group)) < 2) => order = <<"x", "y">>
          /\ call' = [op |-> "format", group |-> group, variables |-> variables,
                      order |-> order]
          /\ ret' = GroupFormat(group, variables, order)
    /\ UNCHANGED <<MakerVars, ConverterVars>>

\* the caller has the result
FormatReturn ==
    /\ call # NoFormat
    /\ call' = NoFormat
    /\ ret' = NoResult
    /\ UNCHANGED <<MakerVars, ConverterVars>>

NextFormat ==
    \/ FindIterationSourceCall
    \/ GroupFormatCall
    \/ FormatReturn

SpecFormat == Init /\ [][NextFormat]_vars

(***************************************************************************)
(* C12                                                                     *)
(***************************************************************************)
\* what the claim says of a group whose input_key is key, for the scope
\* variables and the iteration source and blocks the calls gave
KeyAloneDecides(key) ==
    LET variables == call.variables
        value == Get(variables, key)
        is_list == Has(variables, key) /\ value.t = "list"
    IN  /\ call.op = "_find_iteration_source" =>
              /\ ret.ok
              /\ (is_list /\ Len(value.v) > 0 /\ value.v[1].t = "dict") => ret.v = value.v
              /\ (is_list /\ \A i \in DOMAIN value.v : value.v[i].t # "dict") =>
                     /\ Len(ret.v) = Len(value.v)
                     /\ \A i \in DOMAIN value.v :
                           /\ ret.v[i].t = "dict"
                           /\ ret.v[i].v = <<Item(key, value.v[i])>>
              /\ ~is_list => ret.v = <<>>
        /\ call.op = "format" =>
              /\ ~is_list => ret = Returned(<<>>)
              /\ (/\ key = "rows"
                  /\ variables = Dict(<<Item("rows", PyList(<<Dict(<<Item("x", PyInt(1))>>),
                                                               Dict(<<Item("x", PyInt(2))>>)>>))>>)
                  /\ call.group.items = <<TextTemplate(<<Lit("v="), Field("x")>>, <<"x">>)>>)
                 => ret = Returned(<<TextContentBlock("v=1"), TextContentBlock("v=2")>>)

IsIterableCall ==
    call.op \in {"_find_iteration_source", "format"} /\ call.group.type = "iterable"

\* C12 as stated: for an iterable group that declares input_key, the
\* iteration source is decided by that key alone: a list whose first
\* element is a mapping is used as it is, a list of scalars is wrapped
\* element by element under input_key, and a key that is missing or holds
\* no list gives an empty source and no blocks; rows [{x:1},{x:2}] with
\* item "v={x}" gives "v=1" then "v=2".
C12_DeclaredKeyDecides ==
    (IsIterableCall /\ call.group.input_key # PyNone) =>
        KeyAloneDecides(call.group.input_key.v)

\* C12, amended: the same of a group whose input_key is a non-empty string.
C12_NonEmptyKeyDecides ==
    (IsIterableCall /\ Truthy(call.group.input_key)) =>
        KeyAloneDecides(call.group.input_key.v)

\* the example of the claim, and a list of scalars wrapped under the key
C12_Witness ==
    \/ /\ call.op = "format" /\ call.group.type = "iterable"
       /\ call.group.input_key = PyStr("rows")
       /\ ret = Returned(<<TextContentBlock("v=1"), TextContentBlock("v=2")>>)
    \/ /\ call.op = "_find_iteration_source"
       /\ call.group.input_key = PyStr("x")
       /\ Has(call.variables, "y")
       /\ ret = Returned(<<Dict(<<Item("x", PyInt(11))>>), Dict(<<Item("x", PyInt(12))>>)>>)

(***************************************************************************)
(* The calls that format one text template:                                *)
(* ContentTemplateFormatter.format (formatter.py) and                      *)
(* BasePromptFormatter._process_text_template (base.py).                   *)
(***************************************************************************)
TextContents ==
    {<<Lit("Hello "), Field("name")>>, <<Lit("x="), Field("other")>>,
     <<Field("name"), Lit("/"), Field("other")>>, <<Lit("hi")>>}

DeclaredVariables ==
    {<<>>, <<"name">>, <<"other">>, <<"name", "other">>, <<"other", "name">>,
     <<"name", "name">>, <<"name", "absent">>}

TextValues == {PyStr("World"), PyStr("ignored"), PyInt(1), PyList(<<PyInt(1), PyStr("a")>>)}

TextScopes ==
    {Dict(<<>>)}
    \cup {Dict(<<Item(k, v)>>) : k \in {"name", "other"}, v \in TextValues}
    \cup {Dict(<<Item("name", v), Item("other", w)>>) : v \in TextValues, w \in TextValues}
    \cup {Dict(<<Item("other", w), Item("name", v)>>) : v \in TextValues, w \in TextValues}

\* ContentTemplateFormatter().format(TextTemplate(...), variables)
ContentFormatCall ==
    /\ call = NoFormat
    /\ \E content \in TextContents, input_variables \in DeclaredVariables,
          variables \in TextScopes :
          /\ call' = [op |-> "ContentTemplateFormatter.format", content |-> content,
                      input_variables |-> input_variables, variables |-> variables,
                      template_format |-> "f-string"]
          /\ ret' = ContentFormat(TextTemplate(content, input_variables), variables)
    /\ UNCHANGED <<MakerVars, ConverterVars>>

\* BasePromptFormatter._process_text_template(TextTemplate(...), variables,
\* template_format)
ProcessTextTemplateCall ==
    /\ call = NoFormat
    /\ \E value \in TextContents, input_variables \in DeclaredVariables,
          variables \in TextScopes, template_format \in {"f-string", "jinja2"} :
          /\ call' = [op |-> "_process_text_template", content |-> value,
                      input_variables |-> input_variables, variables |-> variables,
                      template_format |-> template_format]
          /\ ret' = ProcessTextTemplate(PromptTextTemplate(value, input_variables),
                                        variables, template_format)
    /\ UNCHANGED <<MakerVars, ConverterVars>>

NextText ==
    \/ ContentFormatCall
    \/ ProcessTextTemplateCall
    \/ FormatReturn

SpecText == Init /\ [][NextText]_vars

(***************************************************************************)
(* C13                                                                     *)
(***************************************************************************)
IsTextCall == call.op \in {"ContentTemplateFormatter.format", "_process_text_template"}

\* the keys of a scope that a template declares
DeclaredIn(variables, input_variables) ==
    Dict(SelectSeq(variables.v, LAMBDA e : e.k \in Range(input_variables)))

\* the replacement fields of a template string
FieldsOf(content) == {content[i].s : i \in {j \in DOMAIN content : ~content[j].lit}}

\* C13: when a text template declares input_variables, substitution sees
\* exactly the declared keys that are present in the scope: the text is the
\* one that the declared part of the scope gives, whatever else the scope
\* holds, and a declared key that the scope lacks raises nothing by being
\* declared.  "Hello {name}" with input_variables [name] on {name: World,
\* other: ignored} gives exactly one text block, "Hello World".
C13_OnlyDeclaredKeysSeen ==
    (IsTextCall /\ call.template_format = "f-string" /\ call.input_variables # <<>>) =>
        LET seen == DeclaredIn(call.variables, call.input_variables)
            text == StrFormat(call.content, seen)
        IN  /\ text.ok => ret = Returned(<<[type |-> "text", text |-> text.v]>>)
            \* a field of an undeclared key does not get the value of the key
            /\ (/\ (FieldsOf(call.content) \cap Keys(call.variables)) \ Keys(seen) # {}
                /\ StrFormat(call.content, call.variables).ok)
                  => ret # Returned(<<[type |-> "text",
                                       text |-> StrFormat(call.content, call.variables).v]>>)
            /\ (/\ call.content = <<Lit("Hello "), Field("name")>>
                /\ call.input_variables = <<"name">>
                /\ call.variables = Dict(<<Item("name", PyStr("World")),
                                           Item("other", PyStr("ignored"))>>))
               => ret = Returned(<<[type |-> "text", text |-> "Hello World"]>>)

(***************************************************************************)
(* C14                                                                     *)
(***************************************************************************)
\* the variable map that the call hands to str.format
GivenToSubstitution ==
    IF call.op = "_process_text_template"
    THEN DeclaredIn(call.variables, call.input_variables)
    ELSE call.variables

\* C14: on the f-string path, formatting a text template whose string has a
\* replacement field for a variable that is not in the variable map given
\* to substitution does not raise and still yields a text block.
C14_MissingVariableSwallowed ==
    (/\ IsTextCall /\ call.template_format = "f-string"
     /\ FieldsOf(call.content) \ Keys(GivenToSubstitution) # {}) =>
        /\ ret.ok
        /\ Len(ret.v) = 1
        /\ ret.v[1].type = "text"

(***************************************************************************)
(* C15                                                                     *)
(***************************************************************************)
IsAutoSourceCall ==
    call.op = "_find_iteration_source" /\ call.group.input_key = PyNone

\* the referenced names that resolve in the scope to a list
Candidates ==
    {n \in AllVars(call.group) : Has(call.variables, n) /\ Get(call.variables, n).t = "list"}

\* the candidate list found first, in the order of the process
FirstFound ==
    Get(call.variables,
        call.order[CHOOSE i \in DOMAIN call.order :
                      /\ call.order[i] \in Candidates
                      /\ \A j \in 1..(i - 1) : call.order[j] \notin Candidates]).v

AllOfType(list, is_dict) == \A i \in DOMAIN list : (list[i].t = "dict") = is_dict

\* C15: for an iterable group without input_key with at least one
\* referenced name that resolves to a list: when the first found candidate
\* list holds no mapping and all candidate lists have the length n, the
\* source has exactly n maps, the i-th giving each candidate name the i-th
\* element of its list and each other referenced name of the scope its
\* value, and no name that the scope lacks; when the first found candidate
\* list holds mappings, that list is the source.
C15_ParallelListsZipped ==
    (IsAutoSourceCall /\ Candidates # {}) =>
        LET n == Len(FirstFound)
            named == AllVars(call.group) \cap Keys(call.variables)
        IN  /\ (/\ AllOfType(FirstFound, FALSE)
                /\ \A c \in Candidates : Len(Get(call.variables, c).v) = n) =>
                   /\ ret.ok
                   /\ Len(ret.v) = n
                   /\ \A i \in 1..n :
                         /\ ret.v[i].t = "dict"
                         /\ Keys(ret.v[i]) = named
                         /\ \A name \in named :
                               Get(ret.v[i], name) =
                                   IF name \in Candidates
                                   THEN Get(call.variables, name).v[i]
                                   ELSE Get(call.variables, name)
            /\ (n > 0 /\ AllOfType(FirstFound, TRUE)) => ret = Returned(FirstFound)

\* two lists of two scalars zipped, the second name found first
C15_Witness ==
    /\ IsAutoSourceCall
    /\ call.order = <<"y", "x">>
    /\ ret = Returned(<<Dict(<<Item("y", PyInt(21)), Item("x", PyInt(11))>>),
                        Dict(<<Item("y", PyInt(22)), Item("x", PyInt(12))>>)>>)

(***************************************************************************)
(* C16                                                                     *)
(***************************************************************************)
\* the variable at place i of the scope holds a non-empty list whose first
\* element is a mapping with at least one referenced name
Qualifies(i) ==
    LET value == call.variables.v[i].v
    IN  /\ value.t = "list"
        /\ value.v # <<>>
        /\ value.v[1].t = "dict"
        /\ Keys(value.v[1]) \cap AllVars(call.group) # {}

\* C16: for an iterable group without input_key none of whose referenced
\* names resolves to a list, the iteration source is the first variable in
\* scope order whose value is a non-empty list with a mapping as first
\* element that contains at least one referenced name, as it is; if no
\* variable qualifies, or the items reference no names, the source is empty
\* and the group contributes no blocks.
C16_FirstFittingListAdopted ==
    (/\ call.op \in {"_find_iteration_source", "format"}
     /\ call.group.type = "iterable" /\ call.group.input_key = PyNone
     /\ Candidates = {}) =>
        LET fitting == {i \in DOMAIN call.variables.v : Qualifies(i)}
            first == CHOOSE i \in fitting : \A j \in fitting : i <= j
        IN  /\ (call.op = "_find_iteration_source" /\ fitting # {})
                  => ret = Returned(call.variables.v[first].v.v)
            /\ fitting = {} => ret = Returned(<<>>)
            /\ AllVars(call.group) = {} => ret = Returned(<<>>)

\* two variables qualify and the first of the scope is adopted
C16_Witness ==
    /\ IsAutoSourceCall /\ Candidates = {}
    /\ Len(call.variables.v) = 2
    /\ Qualifies(1) /\ Qualifies(2)
    /\ call.variables.v[1].k = "y"
    /\ ret = Returned(call.variables.v[1].v.v)

(***************************************************************************)
(* C17                                                                     *)
(***************************************************************************)
\* a scope laid over another: the keys of both, each with the value of the
\* upper scope where it has the key, and of the lower scope else
Over(upper, lower) ==
    Dict([i \in DOMAIN lower.v |->
             IF Has(upper, lower.v[i].k)
             THEN Item(lower.v[i].k, Get(upper, lower.v[i].k)) ELSE lower.v[i]]
         \o SelectSeq(upper.v, LAMBDA e : ~Has(lower, e.k)))

RECURSIVE Flat(_)
Flat(lists) == IF Len(lists) = 0 THEN <<>> ELSE lists[1] \o Flat(Tail(lists))

\* C17: expanding an iterable group formats every item against the
\* iteration's scope laid over the parent scope (the iteration's keys win,
\* the parent's other keys stay visible), a nested iterable group finding
\* its own source in that merged scope; the blocks come in iteration order
\* and, within an iteration, in the order of the items, so k text items over
\* n iteration scopes yield n*k blocks.
C17_IterationsExpanded ==
    (/\ call.op = "format" /\ call.group.type = "iterable"
     /\ FindIterationSource(call.group, call.variables, call.order).ok
     /\ AllOfType(FindIterationSource(call.group, call.variables, call.order).v, TRUE)) =>
        LET scopes == FindIterationSource(call.group, call.variables, call.order).v
            items == call.group.items
            blocks(n, k) ==
                LET merged == Over(scopes[n], call.variables)
                IN  IF items[k].type = "iterable"
                    THEN GroupFormat(items[k], merged, call.order)
                    ELSE ContentFormat(items[k], merged)
        IN  /\ (\A n \in DOMAIN scopes : \A k \in DOMAIN items : blocks(n, k).ok)
                  => ret = Returned(Flat([n \in DOMAIN scopes |->
                                            Flat([k \in DOMAIN items |-> blocks(n, k).v])]))
            /\ (\A k \in DOMAIN items : items[k].type = "text")
                  => ret.ok /\ Len(ret.v) = Len(scopes) * Len(items)

(***************************************************************************)
(* The calls of PromptTemplateFormatter.format: the message templates and  *)
(* the input data they are given.  The n-th element of a list of documents *)
(* holds values that occur in no other element.                            *)
(***************************************************************************)
DocumentKinds == {"x", "xs", "rows", "y", "int", "str"}

Document(kind, n) ==
    CASE kind = "x" -> Dict(<<Item("x", PyInt(n))>>)
      [] kind = "xs" -> Dict(<<Item("x", PyList(<<PyInt(10 * n + 1), PyInt(10 * n + 2)>>))>>)
      [] kind = "rows" ->
           Dict(<<Item("rows", PyList(<<Dict(<<Item("x", PyInt(10 * n + 1))>>)>>))>>)
      [] kind = "y" -> Dict(<<Item("y", PyStr("u" \o StrOfInt(n)))>>)
      [] kind = "int" -> PyInt(n)
      [] kind = "str" -> PyStr("s")

\* the lists of at most MaxList documents
DocumentLists ==
    UNION {{PyList([n \in 1..len |-> Document(kinds[n], n)]) :
               kinds \in [1..len -> DocumentKinds]} : len \in 0..MaxList}

\* what input_data holds under the key of the documents: a list of them, or
\* one document that is in no list
DocumentValues == DocumentLists \cup {Document("x", 7), Document("int", 7)}

InputData ==
    {Dict(<<>>), Dict(<<Item("x", PyInt(90))>>)}
    \cup {Dict(<<Item(key, v)>>) : key \in {"docs", ""}, v \in DocumentValues}
    \cup {Dict(<<Item(key, v), Item("x", PyInt(90))>>) :
             key \in {"docs", ""}, v \in DocumentValues}

\* the content groups of an iterable message
GroupLists ==
    {<<StaticContentTemplateGroup(<<TextX>>)>>,
     <<StaticContentTemplateGroup(<<TextX>>), StaticContentTemplateGroup(<<TextHi>>)>>,
     <<StaticContentTemplateGroup(<<ImageY>>), StaticContentTemplateGroup(<<TextHi>>)>>,
     <<IterableContentTemplateGroup(<<TextX>>, PyStr("rows"))>>,
     <<IterableContentTemplateGroup(<<TextX>>, PyNone)>>}

MessageKeys == {PyNone, PyStr(""), PyStr("docs"), PyStr("x")}

MessageTemplates ==
    {SingleContentMessageTemplate("system", TextHi),
     SingleContentMessageTemplate("user", TextX)}
    \cup {IterableContentMessageTemplate(role, contents, input_key) :
             role \in {"user"}, contents \in GroupLists, input_key \in MessageKeys}

\* PromptTemplate.templates: one message template or two
TemplateLists ==
    {<<m>> : m \in MessageTemplates}
    \cup {<<m1, m2>> : m1 \in MessageTemplates, m2 \in MessageTemplates}

\* PromptTemplateFormatter().format(PromptTemplate(templates=...), input_data);
\* no group of GroupLists refers to two names, and the order in which a set
\* of names is iterated does not show
PromptFormatCall ==
    /\ call = NoFormat
    /\ \E templates \in TemplateLists, input_data \in InputData :
          /\ call' = [op |-> "PromptTemplateFormatter.format", templates |-> templates,
                      input_data |-> input_data, order |-> <<"x", "y">>]
          /\ ret' = PromptFormat(templates, input_data, <<"x", "y">>)
    /\ UNCHANGED <<MakerVars, ConverterVars>>

NextPrompt ==
    \/ PromptFormatCall
    \/ FormatReturn

SpecPrompt == Init /\ [][NextPrompt]_vars

(***************************************************************************)
(* C18                                                                     *)
(***************************************************************************)
IsPromptCall == call.op = "PromptTemplateFormatter.format"

\* input_key is set, present in the input and a sequence
KeyHoldsSequence(message_template, input_data) ==
    /\ message_template.input_key.t = "str"
    /\ Has(input_data, message_template.input_key.v)
    /\ Get(input_data, message_template.input_key.v).t = "list"

\* input_key is unset or absent from the input
KeyUnsetOrAbsent(message_template, input_data) ==
    \/ message_template.input_key.t = "None"
    \/ ~Has(input_data, message_template.input_key.v)

\* each group formatted against the scope of each element, elements first
BlocksOver(contents, elements, order) ==
    Flat([n \in DOMAIN elements |->
             Flat([g \in DOMAIN contents |-> GroupFormat(contents[g], elements[n], order).v])])

\* C18: the format call gives one (role, blocks) pair for every message
\* template, in the order of the templates; an iterable message whose
\* input_key is set, present in the input and a sequence has the blocks of
\* its groups formatted against each element, elements in order and groups
\* in declaration order within one element; one whose input_key is unset or
\* absent from the input has no blocks.
C18_IterableMessageExpanded ==
    IsPromptCall =>
        /\ ret.ok
        /\ Len(ret.v) = Len(call.templates)
        /\ \A m \in DOMAIN call.templates :
              LET message_template == call.templates[m]
              IN  /\ ret.v[m].role = message_template.role
                  /\ message_template.type = "iterable" =>
                        /\ KeyHoldsSequence(message_template, call.input_data) =>
                              ret.v[m].blocks =
                                  BlocksOver(message_template.contents,
                                             Get(call.input_data,
                                                 message_template.input_key.v).v,
                                             call.order)
                        /\ KeyUnsetOrAbsent(message_template, call.input_data) =>
                              ret.v[m].blocks = <<>>

(***************************************************************************)
(* C19                                                                     *)
(***************************************************************************)
\* the names the content groups of a message refer to
NamesOf(contents) == UNION {AllVars(contents[g]) : g \in DOMAIN contents}

\* the scope of one element: a mapping itself, any other value under name
ScopeOf(element, name) ==
    IF element.t = "dict" THEN element ELSE Dict(<<Item(name, element)>>)

\* the groups of a message formatted against the scopes of the elements
ScopedBlocks(message_template, input_data, order) ==
    LET elements == IterationData(message_template, input_data)
        contents == message_template.contents
        name == CHOOSE n \in NamesOf(contents) : TRUE
    IN  Extend([n \in DOMAIN elements |->
                   Extend([g \in DOMAIN contents |->
                              GroupFormat(contents[g], ScopeOf(elements[n], name), order)])])

\* C19: in a call with one iterable message whose content groups refer to
\* one name, every element of the sequence under input_key gives a scope, a
\* mapping itself and any other element its value under that name, and the
\* message's blocks are those of the groups formatted against these scopes:
\* where that formatting returns, the call returns it.
C19_ScalarElementScoped ==
    (/\ IsPromptCall
     /\ Len(call.templates) = 1
     /\ call.templates[1].type = "iterable"
     /\ KeyHoldsSequence(call.templates[1], call.input_data)
     /\ Cardinality(NamesOf(call.templates[1].contents)) = 1
     /\ ScopedBlocks(call.templates[1], call.input_data, call.order).ok) =>
        ret = Returned(<<[role |-> call.templates[1].role,
                          blocks |-> ScopedBlocks(call.templates[1], call.input_data,
                                                  call.order).v]>>)

(***************************************************************************)
(* The calls of AnthropicPromptFormatter._process_image_template: the      *)
(* image URLs it is given, piece by piece.  No two words are neighbours,   *)
(* so that the pieces of a URL are the pieces of its text.                 *)
(***************************************************************************)
\* what the i-th piece of a URL may be
UrlChoices(i) ==
    CASE i = 1 -> {"data", "http"}
      [] i = 2 -> {":", ","}
      [] i = 3 -> {"image/png", "image/webp", "text/plain", ";"}
      [] i = 4 -> {";", ",", ":"}
      [] i = 5 -> {"base64", ","}
      [] i = 6 -> {",", ";"}
      [] i = 7 -> {"AAA", ","}
      [] i = 8 -> {",", ":"}
      [] OTHER -> IF i % 2 = 1 THEN {"BBB"} ELSE {","}

\* the URLs of len pieces that begin with the pieces of start
RECURSIVE UrlsFrom(_, _)
UrlsFrom(start, len) ==
    IF Len(start) >= len THEN {start}
    ELSE UNION {UrlsFrom(Append(start, c), len) : c \in UrlChoices(Len(start) + 1)}

\* AnthropicPromptFormatter._process_image_template(ImageTemplate(
\* input_name="image"), variables)
ProcessImageTemplateCall ==
    /\ call = NoFormat
    /\ \E len \in 0..MaxUrl :
          \E image_url \in {Chars(u) : u \in UrlsFrom(<<>>, len)} \cup {PyNone} :
             \E variables \in {Dict(<<>>), Dict(<<Item("image", image_url)>>),
                               Dict(<<Item("other", image_url)>>)} :
                /\ call' = [op |-> "_process_image_template",
                            item |-> PromptImageTemplate("image"),
                            variables |-> variables]
                /\ ret' = ProcessImageTemplate(PromptImageTemplate("image"), variables)
    /\ UNCHANGED <<MakerVars, ConverterVars>>

NextImage ==
    \/ ProcessImageTemplateCall
    \/ FormatReturn

SpecImage == Init /\ [][NextImage]_vars

(***************************************************************************)
(* C20                                                                     *)
(***************************************************************************)
\* the call was given a str under the template's input_name
IsImageCall ==
    /\ call.op = "_process_image_template"
    /\ Has(call.variables, call.item.input_name)
    /\ Get(call.variables, call.item.input_name).t = "str"

\* the pieces of the value
ImageUrlGiven == Get(call.variables, call.item.input_name).v

\* the value reads data:<media-type>;base64,<data>, the media type one word
OfDataUrlForm(pieces) ==
    /\ Len(pieces) >= 6
    /\ SubSeq(pieces, 1, 2) = <<"data", ":">>
    /\ pieces[3] \notin Separators
    /\ SubSeq(pieces, 4, 6) = <<";", "base64", ",">>

\* the value begins data:<media-type> and goes on, if it does, with the
\* parameters (;) or the data (,): the word is its media type, and it has
\* the empty media type when nothing stands between data: and ; or ,
MediaTypeOf(pieces) ==
    IF Len(pieces) >= 3 /\ pieces[3] \notin Separators THEN pieces[3] ELSE ""
HasMediaType(pieces) ==
    /\ Len(pieces) >= 2
    /\ SubSeq(pieces, 1, 2) = <<"data", ":">>
    /\ \/ Len(pieces) = 2
       \/ pieces[3] \in {";", ","}
       \/ pieces[3] \notin Separators /\ (Len(pieces) = 3 \/ pieces[4] \in {";", ","})

\* the text after the first comma
RECURSIVE AfterFirstComma(_)
AfterFirstComma(pieces) ==
    IF Len(pieces) = 0 THEN ""
    ELSE IF pieces[1] = "," THEN Joined(Tail(pieces))
    ELSE AfterFirstComma(Tail(pieces))

HeaderOf(pieces) == SplitOnce(pieces, ",").before

\* a data: value with no comma, or whose header has no semicolon (the
\* header of a value that starts with data: has its colon)
IsMalformedDataUrl(pieces) ==
    /\ StartsWithData(pieces)
    /\ \/ ~SplitOnce(pieces, ",").found
       \/ ~SplitOnce(HeaderOf(pieces), ";").found

\* C21: a data: value with no comma, or whose header lacks the semicolon,
\* gives no image block: the call raises the invalid-data-URL ValueError,
\* and the message of the error holds the value as it was given.
C21_MalformedDataUrlRejected ==
    (IsImageCall /\ IsMalformedDataUrl(ImageUrlGiven)) =>
        /\ ~ret.ok
        /\ ret.exc = "ValueError"
        /\ \E i \in DOMAIN ret.msg : ret.msg[i] = Joined(ImageUrlGiven)

(***************************************************************************)
(* The message converters,                                                 *)
(* src/src/data_cutter/template_formatter/message_converter.py.  A         *)
(* content_list is a sequence of (role, content_blocks) pairs; the url of  *)
(* an image block is a str, given by its pieces.                           *)
(***************************************************************************)
\* ImageContentBlock(image_url=url), the field being Union[str, ImageUrlObject]
ImageBlockOfStr(url) == [type |-> "image_url", image_url |-> Chars(url)]

\* isinstance(image_url, ImageUrlObject)
IsImageUrlObject(image_url) == "url" \in DOMAIN image_url

\* block.model_dump(): the dict of the fields of the model, the fields of a
\* nested model as a dict
ModelDump(block) ==
    IF block.type = "text" THEN [type |-> block.type, text |-> block.text]
    ELSE [type |-> block.type,
          image_url |-> IF IsImageUrlObject(block.image_url)
                        THEN [url |-> block.image_url.url,
                              detail |-> block.image_url.detail,
                              format |-> block.image_url.format]
                        ELSE block.image_url.v]

\* OpenAIMessageConverter.convert, lines 46-58
OpenAIConvert(content_list) ==
    [m \in DOMAIN content_list |->
        [role |-> content_list[m].role,
         content |-> [b \in DOMAIN content_list[m].blocks |->
                         ModelDump(content_list[m].blocks[b])]]]

\* lines 105-109: the media type of a header
MediaTypeOfHeader(header) ==
    LET media_part == SplitOnce(SplitOnce(SplitOnce(header, ":").after, ":").before,
                                ";").before
    IN  IF ":" \in Range(header) /\ ";" \in Range(header) /\ Joined(media_part) # ""
        THEN Joined(media_part) ELSE "image/png"

\* lines 94-124: the items one image block adds to content_items
AnthropicImageItems(block) ==
    LET url == IF IsImageUrlObject(block.image_url)
               THEN block.image_url.url ELSE block.image_url.v
        parts == SplitOnce(url, ",")
    IN  IF StartsWithData(url)
        THEN IF parts.found
             THEN <<[type |-> "image",
                     source |-> [type |-> "base64",
                                 media_type |-> MediaTypeOfHeader(parts.before),
                                 data |-> Joined(parts.after)]]>>
             ELSE <<>>
        ELSE <<[type |-> "image", source |-> [type |-> "url", url |-> Joined(url)]]>>

\* lines 90-124: the items one block adds to content_items
AnthropicItems(block) ==
    IF block.type = "text" THEN <<[type |-> "text", text |-> block.text]>>
    ELSE IF block.type = "image_url" THEN AnthropicImageItems(block)
    ELSE <<>>

\* AnthropicMessageConverter.convert, lines 82-128
AnthropicConvert(content_list) ==
    [m \in DOMAIN content_list |->
        [role |-> content_list[m].role,
         content |-> Flat([b \in DOMAIN content_list[m].blocks |->
                              AnthropicItems(content_list[m].blocks[b])])]]

\* converter.convert(content_list) of an instance of converter_class
Convert(converter_class, content_list) ==
    IF converter_class = "OpenAIMessageConverter" THEN OpenAIConvert(content_list)
    ELSE IF converter_class = "AnthropicMessageConverter" THEN AnthropicConvert(content_list)
    ELSE <<>>

(***************************************************************************)
(* The calls of convert: the content lists.                                *)
(***************************************************************************)
ConvertUrls ==
    {<<"http", ":", "AAA">>,
     <<"data", ":", "image/png", ";", "base64", ",", "QUJD">>,
     <<"data", ":", "image/gif", ";", "base64", ",", "AAA", ",", "BBB">>,
     <<"data", ":", "image/gif", ",", "AAA">>,
     <<"data", ":", ";", "base64", ",", "AAA">>,
     <<"data", ":", "image/gif", ":", "x", ";", "base64", ",", "AAA">>,
     <<"data", ":", "image/png", ";", "base64">>,
     <<"data", ":">>}

Blocks ==
    {TextContentBlock("hi"), TextContentBlock("yo")}
    \cup {ImageContentBlock(url) : url \in ConvertUrls}
    \cup {ImageBlockOfStr(url) : url \in ConvertUrls}

BlockLists == UNION {[1..len -> Blocks] : len \in 0..MaxList}

Roles == {"user", "assistant"}

\* one pair of at most MaxList blocks, or two pairs of at most one block
ContentLists ==
    {<<>>}
    \cup {<<[role |-> role, blocks |-> blocks]>> : role \in Roles, blocks \in BlockLists}
    \cup {<<[role |-> r1, blocks |-> b1], [role |-> r2, blocks |-> b2]>> :
             r1 \in Roles, r2 \in Roles,
             b1 \in {b \in BlockLists : Len(b) <= 1},
             b2 \in {b \in BlockLists : Len(b) <= 1}}

\* OpenAIMessageConverter().convert(content_list) and
\* AnthropicMessageConverter().convert(content_list)
ConvertCall ==
    /\ call = NoFormat
    /\ \E converter_class \in {"OpenAIMessageConverter", "AnthropicMessageConverter"},
          content_list \in ContentLists :
          /\ call' = [op |-> "convert", converter_class |-> converter_class,
                      content_list |-> content_list]
          /\ ret' = Returned(Convert(converter_class, content_list))
    /\ UNCHANGED <<MakerVars, ConverterVars>>

NextConvert ==
    \/ ConvertCall
    \/ FormatReturn

SpecConvert == Init /\ [][NextConvert]_vars

(***************************************************************************)
(* C22                                                                     *)
(***************************************************************************)
IsConvertCall(converter_class) ==
    call.op = "convert" /\ call.converter_class = converter_class

\* the url of an image block
UrlOf(block) ==
    IF IsImageUrlObject(block.image_url) THEN block.image_url.url ELSE block.image_url.v

\* C22: the OpenAI converter gives one message per (role, blocks) pair, in
\* the order of the pairs, with the role of the pair and as content the
\* blocks in order, a text block as exactly {type: text, text: <text>} and
\* an image block as exactly {type: image_url, image_url: {url: <url>}}.
C22_OpenAIShapes ==
    IsConvertCall("OpenAIMessageConverter") =>
        /\ ret.ok
        /\ Len(ret.v) = Len(call.content_list)
        /\ \A m \in DOMAIN call.content_list :
              LET blocks == call.content_list[m].blocks
              IN  /\ ret.v[m].role = call.content_list[m].role
                  /\ Len(ret.v[m].content) = Len(blocks)
                  /\ \A b \in DOMAIN blocks :
                        ret.v[m].content[b] =
                            IF blocks[b].type = "text"
                            THEN [type |-> "text", text |-> blocks[b].text]
                            ELSE [type |-> "image_url",
                                  image_url |-> [url |-> UrlOf(blocks[b])]]

(***************************************************************************)
(* C23                                                                     *)
(***************************************************************************)
\* the header text between the first colon and the first semicolon, and
\* image/png for a header that has not both, in this order, with text
\* between them
MediaTypeBetween(header) ==
    LET after_colon == SplitOnce(header, ":")
        to_semicolon == SplitOnce(after_colon.after, ";")
    IN  IF after_colon.found /\ to_semicolon.found /\ Joined(to_semicolon.before) # ""
        THEN Joined(to_semicolon.before) ELSE "image/png"

\* what the claim says an image value converts to
SourceObjectOf(url) ==
    IF StartsWithData(url)
    THEN [type |-> "image",
          source |-> [type |-> "base64",
                      media_type |-> MediaTypeBetween(HeaderOf(url)),
                      data |-> AfterFirstComma(url)]]
    ELSE [type |-> "image", source |-> [type |-> "url", url |-> Joined(url)]]

\* C23: the Anthropic converter gives for an image block whose value starts
\* with data: the base64 source object whose data is the text after the
\* first comma and whose media type is the header text between the first
\* colon and the first semicolon, image/png for a malformed header, and for
\* any other value the url source object; data:image/png;base64,QUJD gives
\* {type: image, source: {type: base64, media_type: image/png, data: QUJD}}.
C23_AnthropicImageSource ==
    IsConvertCall("AnthropicMessageConverter") =>
        \A m \in DOMAIN call.content_list :
            LET blocks == call.content_list[m].blocks
            IN  (\A b \in DOMAIN blocks : blocks[b].type = "image_url") =>
                    ret.v[m].content = [b \in DOMAIN blocks |-> SourceObjectOf(UrlOf(blocks[b]))]

(***************************************************************************)
(* C26                                                                     *)
(***************************************************************************)
\* C26: the Anthropic converter gives one message per (role, blocks) pair,
\* in the order of the pairs and with the role of the pair, and the content
\* of a message has one item per block of the pair, in the order of the
\* blocks: a text item for a text block, an image item for an image block.
C26_AnthropicKeepsStructure ==
    IsConvertCall("AnthropicMessageConverter") =>
        /\ ret.ok
        /\ Len(ret.v) = Len(call.content_list)
        /\ \A m \in DOMAIN call.content_list :
              LET blocks == call.content_list[m].blocks
              IN  /\ ret.v[m].role = call.content_list[m].role
                  /\ Len(ret.v[m].content) = Len(blocks)
                  /\ \A b \in DOMAIN blocks :
                        ret.v[m].content[b].type =
                            (IF blocks[b].type = "text" THEN "text" ELSE "image")

(***************************************************************************)
(* MessageConverterFactory, message_converter.py lines 131-178.  A         *)
(* converter object is its class and the number it was created as.         *)
(***************************************************************************)
ConverterObject(converter_class, id) == [class |-> converter_class, id |-> id]

\* ", ".join(names), piece by piece
RECURSIVE JoinNames(_)
JoinNames(names) ==
    IF Len(names) = 0 THEN <<>>
    ELSE IF Len(names) = 1 THEN names
    ELSE <<names[1], ", ">> \o JoinNames(Tail(names))

\* list(cls._converters.keys())
ListSupportedFormats(registry) == [i \in DOMAIN registry.v |-> registry.v[i].k]

\* lines 153-162 with the name looked up as it was given
CreateConverterAsGiven(registry, format_type, id) ==
    IF ~Has(registry, format_type)
    THEN Raised("ValueError",
                <<"Unsupported format type: ", format_type, ". Supported formats: ">>
                \o JoinNames(ListSupportedFormats(registry)))
    ELSE Returned(ConverterObject(Get(registry, format_type), id))

\* lines 153-162: create(format_type), id the number of the new object
CreateConverter(registry, format_type, id) ==
    LET lowered == Lower(format_type)
    IN  IF ~Has(registry, lowered)
        THEN Raised("ValueError",
                    <<"Unsupported format type: ", lowered, ". Supported formats: ">>
                    \o JoinNames(ListSupportedFormats(registry)))
        ELSE Returned(ConverterObject(Get(registry, lowered), id))

\* line 173 with the name kept as it was given
RegisterConverterAsGiven(registry, format_type, converter_class) ==
    Put(registry, format_type, converter_class)

\* line 173: cls._converters[format_type.lower()] = converter_class
RegisterConverter(registry, format_type, converter_class) ==
    Put(registry, Lower(format_type), converter_class)

(***************************************************************************)
(* The calls of the factory.  CustomConverter is a converter class of the  *)
(* caller, whose convert returns no message.                               *)
(***************************************************************************)
ConverterClasses == {"OpenAIMessageConverter", "AnthropicMessageConverter", "CustomConverter"}
RegisterNames == {"custom", "Custom", "openai", "OpenAI"}
CreateNames == {"openai", "OpenAI", "anthropic", "Anthropic", "custom", "Custom", "unknown"}

\* MessageConverterFactory.register(format_type, converter_class)
RegisterCall ==
    /\ call = NoFormat
    /\ Len(registered) < MaxRegister
    /\ \E format_type \in RegisterNames, converter_class \in ConverterClasses :
          /\ call' = [op |-> "register", format_type |-> format_type,
                      converter_class |-> converter_class]
          /\ converters' = RegisterConverter(converters, format_type, converter_class)
          /\ registered' = Append(registered, [format_type |-> format_type,
                                               converter_class |-> converter_class])
    /\ ret' = Returned("None")
    /\ UNCHANGED <<MakerVars, formatter, created>>

\* MessageConverterFactory.create(format_type)
CreateCall ==
    /\ call = NoFormat
    /\ created < MaxInstances
    /\ \E format_type \in CreateNames :
          /\ call' = [op |-> "create", format_type |-> format_type]
          /\ ret' = CreateConverter(converters, format_type, created + 1)
          /\ created' = IF ret'.ok THEN created + 1 ELSE created
    /\ UNCHANGED <<MakerVars, converters, registered, formatter>>

\* MessageConverterFactory.list_supported_formats()
ListSupportedFormatsCall ==
    /\ call = NoFormat
    /\ call' = [op |-> "list_supported_formats"]
    /\ ret' = Returned(ListSupportedFormats(converters))
    /\ UNCHANGED <<MakerVars, ConverterVars>>

NextRegistry ==
    \/ RegisterCall
    \/ CreateCall
    \/ ListSupportedFormatsCall
    \/ FormatReturn

SpecRegistry == Init /\ [][NextRegistry]_vars

(***************************************************************************)
(* C24                                                                     *)
(***************************************************************************)
\* the lower-cased names registered so far: the two of the class and those
\* of the register calls made
RegisteredNames ==
    {"openai", "anthropic"} \cup {Lower(registered[i].format_type) : i \in DOMAIN registered}

\* the class last registered under a lower-cased name
ClassRegistered(name) ==
    LET calls == {i \in DOMAIN registered : Lower(registered[i].format_type) = name}
    IN  IF calls # {}
        THEN registered[CHOOSE i \in calls : \A j \in calls : j <= i].converter_class
        ELSE IF name = "openai" THEN "OpenAIMessageConverter"
        ELSE "AnthropicMessageConverter"

\* C24: create(format_type) returns a converter of the class registered
\* under the lower-cased name, whatever the case of the letters of
\* format_type; for a name that is not registered it raises the ValueError
\* of an unsupported format, whose message holds every registered name:
\* create("unknown") on the registry as the class defines it names openai
\* and anthropic.
C24_CreateByLowerCasedName ==
    call.op = "create" =>
        IF Lower(call.format_type) \in RegisteredNames
        THEN /\ ret.ok
             /\ ret.v.class = ClassRegistered(Lower(call.format_type))
        ELSE /\ ~ret.ok
             /\ ret.exc = "ValueError"
             /\ ret.msg[1] = "Unsupported format type: "
             /\ RegisteredNames \subseteq Range(ret.msg)

\* a name that is not registered failed after a register call had added
\* custom to the two names of the class, and the message names all three
C24_Witness ==
    /\ call.op = "create"
    /\ call.format_type = "unknown"
    /\ "custom" \in RegisteredNames
    /\ ~ret.ok
    /\ {"openai", "anthropic", "custom"} \subseteq Range(ret.msg)

(***************************************************************************)
(* C25                                                                     *)
(***************************************************************************)
\* C25: at every moment the registry maps exactly the registered
\* lower-cased names, each to the class of the last register call made
\* under that name up to letter case, and a name no register call was made
\* under to the class it had: a create call returns a converter of that
\* class, and list_supported_formats returns these names, each once.
C25_LastRegisterWins ==
    /\ Keys(converters) = RegisteredNames
    /\ \A name \in RegisteredNames : Get(converters, name) = ClassRegistered(name)
    /\ call.op = "register" =>
          /\ ret.ok
          /\ Get(converters, Lower(call.format_type)) = call.converter_class
    /\ (call.op = "create" /\ Lower(call.format_type) \in RegisteredNames) =>
          /\ ret.ok
          /\ ret.v.class = ClassRegistered(Lower(call.format_type))
    /\ call.op = "list_supported_formats" =>
          /\ ret.ok
          /\ Range(ret.v) = RegisteredNames
          /\ Len(ret.v) = Cardinality(RegisteredNames)

\* create was given a name in other letter case than the register call
\* that replaced the class of openai, after a second register call under
\* another name
C25_Witness ==
    /\ Len(registered) = 2
    /\ Lower(registered[1].format_type) = "openai"
    /\ registered[1].converter_class = "CustomConverter"
    /\ Lower(registered[2].format_type) = "custom"
    /\ call.op = "create"
    /\ call.format_type # registered[1].format_type
    /\ Lower(call.format_type) = "openai"
    /\ ret.ok
    /\ ret.v.class = "CustomConverter"

(***************************************************************************)
(* PromptTemplateFormatter: __init__, the converter property and           *)
(* content_to_messages, formatter.py lines 198-215 and 289-309.            *)
(***************************************************************************)
\* lines 198-208
NewFormatter(message_format) ==
    [message_format |-> message_format, converter |-> NoConverter, constructed |-> TRUE]

\* lines 210-215 with the converter created on every read
DefaultConverterUncached(self, registry, id) ==
    LET made == CreateConverter(registry, self.message_format, id)
    IN  IF ~made.ok THEN [self |-> self, got |-> made]
        ELSE [self |-> [self EXCEPT !.converter = made.v], got |-> made]

\* lines 210-215: the converter property; the formatter after the read and
\* what the read gave
DefaultConverter(self, registry, id) ==
    IF self.converter = NoConverter
    THEN LET made == CreateConverter(registry, self.message_format, id)
         IN  IF ~made.ok THEN [self |-> self, got |-> made]
             ELSE [self |-> [self EXCEPT !.converter = made.v], got |-> made]
    ELSE [self |-> self, got |-> Returned(self.converter)]

\* lines 304-309: the formatter after the call, the converter the call used
\* and what the call returned or raised
ContentToMessages(self, registry, id, content_list, message_format) ==
    LET read == IF Truthy(message_format)
                THEN [self |-> self,
                      got |-> CreateConverter(registry, message_format.v, id)]
                ELSE DefaultConverter(self, registry, id)
    IN  [self |-> read.self,
         used |-> read.got,
         returned |-> IF ~read.got.ok THEN read.got
                      ELSE Returned(Convert(read.got.v.class, content_list))]

(***************************************************************************)
(* The calls on one formatter, with register calls between them.           *)
(***************************************************************************)
MessageFormats == {"openai", "Anthropic", "unknown"}
Overrides == {PyNone, PyStr(""), PyStr("openai"), PyStr("Anthropic"), PyStr("unknown")}

\* a content list that every converter class converts differently
SampleContentList ==
    <<[role |-> "user",
       blocks |-> <<TextContentBlock("hi"), ImageContentBlock(<<"http", ":", "AAA">>)>>]>>

\* PromptTemplateFormatter(message_format)
NewFormatterCall ==
    /\ call = NoFormat
    /\ \E message_format \in MessageFormats :
          /\ call' = [op |-> "__init__", message_format |-> message_format]
          /\ formatter' = NewFormatter(message_format)
    /\ ret' = Returned("None")
    /\ UNCHANGED <<MakerVars, converters, registered, created>>

\* formatter.message_format = message_format
SetMessageFormat ==
    /\ call = NoFormat
    /\ formatter.constructed
    /\ \E message_format \in MessageFormats :
          /\ message_format # formatter.message_format
          /\ call' = [op |-> "message_format =", message_format |-> message_format]
          /\ formatter' = [formatter EXCEPT !.message_format = message_format]
    /\ ret' = Returned("None")
    /\ UNCHANGED <<MakerVars, converters, registered, created>>

\* MessageConverterFactory.register(format_type, converter_class) under a
\* name a formatter of MessageFormats looks up
RegisterOver ==
    /\ call = NoFormat
    /\ Len(registered) < MaxRegister
    /\ \E format_type \in {"OpenAI", "anthropic", "unknown"},
          converter_class \in {"AnthropicMessageConverter", "CustomConverter"} :
          /\ call' = [op |-> "register", format_type |-> format_type,
                      converter_class |-> converter_class]
          /\ converters' = RegisterConverter(converters, format_type, converter_class)
          /\ registered' = Append(registered, [format_type |-> format_type,
                                               converter_class |-> converter_class])
    /\ ret' = Returned("None")
    /\ UNCHANGED <<MakerVars, formatter, created>>

\* formatter.content_to_messages(content_list, message_format=message_format)
ContentToMessagesCall ==
    /\ call = NoFormat
    /\ formatter.constructed
    /\ created < MaxInstances
    /\ \E message_format \in Overrides :
          LET done == ContentToMessages(formatter, converters, created + 1,
                                        SampleContentList, message_format)
          IN  /\ call' = [op |-> "content_to_messages",
                          content_list |-> SampleContentList,
                          message_format |-> message_format,
                          used |-> done.used]
              /\ formatter' = done.self
              /\ ret' = done.returned
              /\ created' = IF done.used.ok /\ done.used.v.id = created + 1
                            THEN created + 1 ELSE created
    /\ UNCHANGED <<MakerVars, converters, registered>>

NextDefault ==
    \/ NewFormatterCall
    \/ SetMessageFormat
    \/ RegisterOver
    \/ ContentToMessagesCall
    \/ FormatReturn

SpecDefault == Init /\ [][NextDefault]_vars

(***************************************************************************)
(* C28                                                                     *)
(***************************************************************************)
\* what a conversion by the class registered now under name gives: the
\* messages of a converter of that class, an error for a name that is not
\* registered
ConvertedNow(name, content_list) ==
    IF Lower(name) \in RegisteredNames
    THEN Returned(Convert(ClassRegistered(Lower(name)), content_list))
    ELSE Raised("ValueError", <<>>)

SameOutcome(r, expected) ==
    IF expected.ok THEN r = expected ELSE ~r.ok /\ r.exc = expected.exc

\* one step of the formatter, explicit being the values of message_format
\* that count as an override
DefaultResolvedOnce(explicit) ==
    /\ call'.op = "__init__" =>
          /\ ret'.ok
          /\ formatter'.converter = NoConverter
          /\ created' = created
          /\ converters' = converters
    /\ call'.op = "content_to_messages" =>
          LET message_format == call'.message_format
              content_list == call'.content_list
          IN  IF message_format \in explicit
              THEN /\ formatter' = formatter
                   /\ SameOutcome(ret', ConvertedNow(message_format.v, content_list))
                   /\ ret'.ok => created' = created + 1
              ELSE IF formatter.converter # NoConverter
              THEN /\ formatter' = formatter
                   /\ created' = created
                   /\ call'.used = Returned(formatter.converter)
                   /\ ret' = Returned(Convert(formatter.converter.class, content_list))
              ELSE /\ SameOutcome(ret', ConvertedNow(formatter.message_format, content_list))
                   /\ formatter'.message_format = formatter.message_format
                   /\ IF ret'.ok
                      THEN /\ created' = created + 1
                           /\ formatter'.converter =
                                 ConverterObject(ClassRegistered(Lower(formatter.message_format)),
                                                 created')
                      ELSE formatter'.converter = NoConverter
    /\ call'.op \notin {"__init__", "content_to_messages"} =>
          formatter'.converter = formatter.converter

\* C28 as stated: constructing a formatter does not consult the registry
\* and cannot fail; the first conversion without an override that finds the
\* format registered creates the default converter, and every later one
\* uses that same object whatever was registered or assigned to
\* message_format since; a conversion with a message_format argument takes
\* the class registered now and leaves the default as it is.
C28_DefaultResolvedOnce == [][DefaultResolvedOnce(Overrides \ {PyNone})]_vars

\* C28 with the empty string counted as no override
C28_DefaultResolvedOnceNonEmpty ==
    [][DefaultResolvedOnce(Overrides \ {PyNone, PyStr("")})]_vars

\* a conversion without an override used the converter object an earlier
\* conversion created, of a class that is no longer the one registered
\* under the formatter's message_format
C28_Witness ==
    /\ call.op = "content_to_messages"
    /\ call.message_format = PyNone
    /\ call.used = Returned(formatter.converter)
    /\ formatter.converter.id < created
    /\ Lower(formatter.message_format) \in RegisteredNames
    /\ formatter.converter.class # ClassRegistered(Lower(formatter.message_format))
    /\ ret = Returned(Convert(formatter.converter.class, call.content_list))

(***************************************************************************)
(* C27                                                                     *)
(***************************************************************************)
\* a dict as the map it is: two dicts with the same keys and values are
\* equal in whatever order the keys were set
AsMap(value) ==
    IF value.t = "dict" THEN [k \in Keys(value) |-> Get(value, k)] ELSE value

\* two outcomes of a call are the same: the same exception, or equal lists
SameSource(a, b) ==
    IF a.ok /\ b.ok
    THEN /\ Len(a.v) = Len(b.v)
         /\ \A i \in DOMAIN a.v : AsMap(a.v[i]) = AsMap(b.v[i])
    ELSE ~a.ok /\ ~b.ok /\ a.exc = b.exc

\* C27: for an iterable group without input_key, what
\* _find_iteration_source returns or raises is the same in whatever order
\* the set of the names the items refer to is enumerated.
C27_SourceIgnoresSetOrder ==
    (call.op = "_find_iteration_source" /\ call.group.input_key = PyNone) =>
        \A order \in Orders :
            SameSource(FindIterationSource(call.group, call.variables, order), ret)

(***************************************************************************)
(* C29                                                                     *)
(***************************************************************************)
\* the custom types on the chain of nested builds: every frame but the
\* root's
ChainNames == {stack[j].specification.name : j \in 2..Len(stack)}

\* _get_dtype is about to be entered for the current field
AtGetDtype == InLoop /\ Top.dtype = NoType

\* C29: at every entry to _get_dtype the in-progress set is the set of the
\* custom types on the chain of nested builds and shares no name with the
\* cache; a cached type is on no chain and its model has all the fields of
\* its definition; when make returns a model the in-progress set is empty
\* and the cache holds exactly the custom types reached from the root
\* fields.
C29_StackDiscipline ==
    /\ AtGetDtype =>
          /\ building = ChainNames
          /\ building \cap DOMAIN custom_models = {}
    /\ pc = "running" =>
          \A name \in DOMAIN custom_models :
              /\ name \notin ChainNames
              /\ {f.name : f \in Range(DefinitionOf(config, name).fields)}
                     = {heap[custom_models[name]].fields[k].name :
                           k \in DOMAIN heap[custom_models[name]].fields}
    /\ (pc = "done" /\ result.kind = "model") =>
          /\ building = {}
          /\ DOMAIN custom_models = ReachedFromRoot(config)

\* make returned a model of a schema whose root reaches a custom type
\* through another one, and only those two of the three types defined
C29_Witness ==
    /\ pc = "done"
    /\ result.kind = "model"
    /\ Cardinality(DOMAIN custom_models) = 2
    /\ Cardinality(DefinedNames(config)) = 3
    /\ CustomRefsOf(config.fields) # DOMAIN custom_models

(***************************************************************************)
(* C30                                                                     *)
(***************************************************************************)
\* the number of nested _build_model calls for custom types
Depth == IF Len(stack) = 0 THEN 0 ELSE Len(stack) - 1

\* no custom type is on the chain twice, and none on the chain has a model
\* already
NoneStartedTwice ==
    /\ \A i \in 2..Len(stack) : \A j \in 2..Len(stack) :
          stack[i].specification.name = stack[j].specification.name => i = j
    /\ \A j \in 2..Len(stack) : \A i \in DOMAIN heap :
          heap[i].name # stack[j].specification.name
    /\ \A i \in DOMAIN heap : \A j \in DOMAIN heap : heap[i].name = heap[j].name => i = j

\* C30: a make call that has begun returns a model or raises; while it runs
\* the nested builds of custom types are never deeper than the number of
\* registered custom types, and no custom type starts being built twice.
C30_MakeTerminates ==
    /\ [](pc = "running" =>
             /\ Depth <= Cardinality(DOMAIN custom_dtype_specs)
             /\ NoneStartedTwice)
    /\ (pc = "running" ~> pc = "done")

\* make raised the recursion error from the deepest chain a schema of
\* three custom types has
C30_Witness ==
    /\ pc = "done"
    /\ IsRecursiveError(result)
    /\ Cardinality(DOMAIN custom_dtype_specs) = 3
    /\ Cardinality(building) = 3

====
